---- MODULE Spec2Model ----
(***************************************************************************)
(* SafeTimer: the timer pool engine of src/src/safetimer.c.                *)
(*                                                                         *)
(* The pool (slots, used_bitmap, next_generation), the recursion guard and *)
(* the executing handle are the module's state.  Every public operation is *)
(* one action; safetimer_process and the catch-up path of                  *)
(* safetimer_advance_period are cut at the places where the code releases  *)
(* the BSP critical section, because interrupt-context start/stop can run  *)
(* exactly there.                                                          *)
(*                                                                         *)
(* Widths are scaled: the tick counter has TICK_BITS bits instead of 16 or *)
(* 32 and the handle's generation/index byte has HANDLE_BITS bits instead  *)
(* of 8.  All arithmetic is done modulo the scaled width, as the code does *)
(* it modulo the real one.  Build options are the fields of cfg.           *)
(***************************************************************************)
EXTENDS Integers, Sequences, FiniteSets, TLC

(* ---------- bounds of the model ---------- *)

\* Width of bsp_tick_t in the model (16 or 32 in the source).
TICK_BITS == 3

\* Width of the byte that holds generation and index (8 in the source).
HANDLE_BITS == 3

\* Cap of the observation counters (callback invocations, creates).
ObsCap == 2

(* ---------- program constants ---------- *)

\* The pool size is a build option (#ifndef MAX_TIMERS, default 4); the model is
\* the build with two slots.  Like the default it is a power of two, so every
\* index the handle's index bits can hold is a slot.
MAX_TIMERS == 2

META_GEN_BITS == 6

SAFETIMER_INVALID_HANDLE == -1

\* #define SAFETIMER_SEM_TIMEOUT (-1)
SAFETIMER_SEM_TIMEOUT == -1

\* "timeout_count must be <= 126 (int8_t limitation)"
SEM_MAX_TIMEOUT_COUNT == 126

TIMER_MODE_ONE_SHOT == 0

TIMER_MODE_REPEAT == 1

TIMER_OK == 0

TIMER_ERR_INVALID == -2

TIMER_ERR_NOT_FOUND == -3

NULL == 0

(* ---------- derived widths ---------- *)

TickMod == 2 ^ TICK_BITS

TickHalf == 2 ^ (TICK_BITS - 1)

Ticks == 0 .. (TickMod - 1)

SlotIndices == 0 .. (MAX_TIMERS - 1)

HANDLE_INDEX_BITS ==
  IF MAX_TIMERS <= 2 THEN 1
  ELSE IF MAX_TIMERS <= 4 THEN 2
  ELSE IF MAX_TIMERS <= 8 THEN 3
  ELSE IF MAX_TIMERS <= 16 THEN 4
  ELSE 5

RAW_GEN_BITS == HANDLE_BITS - HANDLE_INDEX_BITS

HANDLE_GEN_BITS == IF RAW_GEN_BITS > META_GEN_BITS THEN META_GEN_BITS ELSE RAW_GEN_BITS

HANDLE_GEN_MAX == (2 ^ HANDLE_GEN_BITS) - 1

HANDLE_GEN_SHIFT == HANDLE_INDEX_BITS

(* ---------- handle encoding ---------- *)

\* A variant that drops the generation bits and returns the bare slot index.
ENCODE_HANDLE_index_only(gen, idx) == idx

\* (gen << HANDLE_GEN_SHIFT) | idx; idx < 2^HANDLE_INDEX_BITS, so | is +.
ENCODE_HANDLE(gen, idx) == gen * (2 ^ HANDLE_GEN_SHIFT) + idx

\* handle & HANDLE_INDEX_MASK on a two's complement int: the low bits.
DECODE_INDEX(handle) == handle % (2 ^ HANDLE_INDEX_BITS)

\* (handle & HANDLE_GEN_MASK) >> HANDLE_GEN_SHIFT: the next HANDLE_GEN_BITS bits.
DECODE_GEN(handle) == (handle \div (2 ^ HANDLE_GEN_SHIFT)) % (2 ^ HANDLE_GEN_BITS)

(* ---------- tick arithmetic ---------- *)

\* A tick-typed value: the cast (bsp_tick_t)x.
TickCast(x) == x % TickMod

\* A tick difference that is not reinterpreted as signed.
safetimer_tick_diff_unsigned(lhs, rhs) == (lhs - rhs) % TickMod

\* Subtract in the tick width, then reinterpret the result as signed.
safetimer_tick_diff(lhs, rhs) ==
  LET d == (lhs - rhs) % TickMod
  IN IF d >= TickHalf THEN d - TickMod ELSE d

(* ---------- state ---------- *)

VARIABLES
  cfg,                \* build options: tick16 (BSP_TICK_TYPE_16BIT), catchup (SAFETIMER_ENABLE_CATCHUP)
  ticks,              \* the BSP tick counter read by bsp_get_ticks
  slots,              \* g_timer_pool.slots
  used_bitmap,        \* g_timer_pool.used_bitmap, as the set of set bits
  next_generation,    \* g_timer_pool.next_generation
  s_processing,       \* recursion guard of safetimer_process
  g_executing_handle, \* handle of the callback being executed
  proc,               \* frame of the running safetimer_process call
  ap,                 \* frame of a safetimer_advance_period call on its catch-up path
  last,               \* observation: the public call that returned last since the last tick
  fired,              \* observation: callback invocations per slot since its last start
  elapsed,            \* observation: ticks since expire_time was set to now + period (-1: not so set)
  isr_stop,           \* observation: a stop hit the slot being processed, before ("early") or after
                      \* ("late") the re-check; "prevented" once the re-check has skipped the callback;
                      \* "advance": a start or stop changed the slot under a released advance_period
  follow,             \* observation: snapshot ticks at which slots fired (prev call, this call)
  watch,              \* observation: one issued handle followed through delete and reuse
  s_critical_nesting, \* the nesting depth counted by bsp_enter_critical / bsp_exit_critical
  calls,              \* the stack of public calls whose critical sections are followed
  sem,                \* a safetimer_sem_t variable of the application
  coro                \* the coroutine that waits for sem: its context (_coro_lc, _coro_handle),
                      \* its position in SAFETIMER_CORO_WAIT_SEM, and observations of the wait

poolVars == <<slots, used_bitmap, next_generation>>

obsVars == <<last, fired, elapsed, isr_stop, follow, watch>>

vars == <<cfg, sem, coro, ticks, slots, used_bitmap, next_generation, s_processing,
          g_executing_handle, proc, ap, last, fired, elapsed, isr_stop, follow, watch,
          s_critical_nesting, calls>>

\* A zero-initialised timer_slot_t.
SlotZero ==
  [period |-> 0, expire_time |-> 0, callback |-> NULL,
   mode |-> TIMER_MODE_ONE_SHOT, active |-> FALSE, generation |-> 0]

\* The locals of safetimer_process between two calls.
ProcIdle ==
  [pc |-> "idle", i |-> 0, current_tick |-> 0, callback |-> NULL,
   captured_gen |-> 0, captured_mode |-> 0,
   old_expire |-> 0, period |-> 0, old_active |-> FALSE]

\* The locals of safetimer_advance_period outside a call.
ApIdle ==
  [pc |-> "idle", handle |-> 0, slot_index |-> 0, new_period_ms |-> 0, lag |-> 0,
   new_expire |-> 0, old_expire_snapshot |-> 0, old_active_snapshot |-> FALSE]

NoCall == [op |-> "none", ret |-> TIMER_OK, path |-> "none"]

\* A coroutine context initialised with {0} plus an unbound handle, outside any
\* call; yields counts the returns made by the wait, signal tells whether
\* SAFETIMER_SEM_SIGNAL ran before ("early") or after ("late") the wait was over,
\* entered whether the wait found the semaphore non-zero.
CoroIdle ==
  [lc |-> 0, handle |-> SAFETIMER_INVALID_HANDLE, pc |-> "out", timeout_count |-> 0,
   yields |-> 0, signal |-> "none", entered |-> FALSE]

NoWatch == [h |-> SAFETIMER_INVALID_HANDLE, deleted |-> FALSE, creates |-> 0]

NoFollow == [prev |-> [i \in SlotIndices |-> -1], cur |-> [i \in SlotIndices |-> -1]]

\* static safetimer_pool_t g_timer_pool = {0}; s_processing = 0;
\* g_executing_handle = SAFETIMER_INVALID_HANDLE.
InitPool ==
  /\ slots = [i \in SlotIndices |-> SlotZero]
  /\ used_bitmap = {}
  /\ next_generation = 0
  /\ s_processing = FALSE
  /\ g_executing_handle = SAFETIMER_INVALID_HANDLE
  /\ proc = ProcIdle
  /\ ap = ApIdle
  /\ last = NoCall
  /\ fired = [i \in SlotIndices |-> 0]
  /\ elapsed = [i \in SlotIndices |-> -1]
  /\ isr_stop = "none"
  /\ follow = NoFollow
  /\ watch = NoWatch
  /\ s_critical_nesting = 0
  /\ calls = <<>>
  /\ sem = 0
  /\ coro = CoroIdle

(* ---------- internal helpers ---------- *)

\* A period check without the upper limits.
PeriodAccepted_nonzero(period_ms) == period_ms # 0

\* The period check at the head of create, set_period and advance_period:
\* period_ms == 0 || period_ms > 0x7FFFFFFF, and with 16-bit ticks
\* period_ms > 65535 (the tick type's maximum).
PeriodAccepted(period_ms) ==
  /\ period_ms # 0
  /\ IF cfg.tick16 THEN period_ms <= TickMod - 1 ELSE period_ms <= TickHalf - 1

\* A validate_handle without the generation check.
validate_handle_no_generation(handle) ==
  LET slot_index == DECODE_INDEX(handle)
  IN /\ slot_index < MAX_TIMERS
     /\ slot_index \in used_bitmap

\* A validate_handle without the allocation check.
validate_handle_no_bitmap(handle) ==
  LET slot_index == DECODE_INDEX(handle)
      handle_gen == DECODE_GEN(handle)
  IN /\ slot_index < MAX_TIMERS
     /\ handle_gen = slots[slot_index].generation

validate_handle(handle) ==
  LET slot_index == DECODE_INDEX(handle)
      handle_gen == DECODE_GEN(handle)
  IN /\ slot_index < MAX_TIMERS
     /\ slot_index \in used_bitmap
     /\ handle_gen = slots[slot_index].generation

\* A find_free_slot whose loop runs one index past the pool.
find_free_slot_past_end ==
  IF \E i \in 0 .. MAX_TIMERS : i \notin used_bitmap
  THEN CHOOSE i \in 0 .. MAX_TIMERS :
         /\ i \notin used_bitmap
         /\ \A j \in 0 .. MAX_TIMERS : j < i => j \in used_bitmap
  ELSE -1

\* A find_free_slot that returns the last free index instead of the first.
find_free_slot_highest ==
  IF \E i \in SlotIndices : i \notin used_bitmap
  THEN CHOOSE i \in SlotIndices :
         /\ i \notin used_bitmap
         /\ \A j \in SlotIndices : j > i => j \in used_bitmap
  ELSE -1

\* First index whose bitmap bit is clear, -1 when there is none.
find_free_slot ==
  IF \E i \in SlotIndices : i \notin used_bitmap
  THEN CHOOSE i \in SlotIndices :
         /\ i \notin used_bitmap
         /\ \A j \in SlotIndices : j < i => j \in used_bitmap
  ELSE -1

\* A generation counter that is not advanced once it is set.
NextGeneration_stuck(ng) == IF ng = 0 THEN 1 ELSE ng

\* A generation counter that wraps to 0 instead of 1.
NextGeneration_through_zero(ng) == (ng + 1) % (HANDLE_GEN_MAX + 1)

\* next_generation++ on a uint8_t, then back to 1 from 0 or from above HANDLE_GEN_MAX.
NextGeneration(ng) ==
  LET n == (ng + 1) % (2 ^ HANDLE_BITS)
  IN IF n = 0 \/ n > HANDLE_GEN_MAX THEN 1 ELSE n

\* The loop "while (handle == SAFETIMER_INVALID_HANDLE)" of create: the generation
\* counter is advanced until the encoded handle differs from the sentinel.
RECURSIVE SkipSentinel(_, _)
SkipSentinel(ng, idx) ==
  IF ENCODE_HANDLE(ng, idx) = SAFETIMER_INVALID_HANDLE
  THEN SkipSentinel(NextGeneration(ng), idx)
  ELSE ng

\* expire_time = current_tick + period, in the tick type.
update_expire_time(slot, current_tick) ==
  [slot EXCEPT !.expire_time = TickCast(current_tick + slot.period)]

\* Main-loop context: no process sweep is between two of its own steps (a callback
\* may be running) and no advance_period call is in progress.
MainCtx == ap.pc = "idle" /\ proc.pc \in {"idle", "cb"}

Returned(op, ret, path) == [op |-> op, ret |-> ret, path |-> path]

Bump(n, cap) == IF n < cap THEN n + 1 ELSE n

\* The observations of a slot whose schedule an operation has just replaced.
Forget(f, i) == [prev |-> [f.prev EXCEPT ![i] = -1], cur |-> [f.cur EXCEPT ![i] = -1]]

\* An operation that failed: nothing but its return value is to be seen.
Rejected(op) ==
  /\ last' = Returned(op, TIMER_ERR_INVALID, "rejected")
  /\ UNCHANGED <<cfg, sem, coro, s_critical_nesting, calls, ticks, poolVars, s_processing, g_executing_handle, proc, ap,
                 fired, elapsed, isr_stop, follow, watch>>

(* ---------- public operations ---------- *)

\* safetimer_create(period_ms, mode, callback).  track chooses whether the
\* returned handle becomes the one that watch follows.
Create(period_ms, mode, callback, track) ==
  LET free_slot == find_free_slot
      generation == SkipSentinel(NextGeneration(next_generation), free_slot)
      handle == ENCODE_HANDLE(generation, free_slot)
  IN IF \/ ~PeriodAccepted(period_ms)
        \/ mode \notin {TIMER_MODE_ONE_SHOT, TIMER_MODE_REPEAT}
        \/ free_slot < 0
     THEN /\ last' = Returned("create", SAFETIMER_INVALID_HANDLE, "rejected")
          /\ UNCHANGED <<cfg, sem, coro, s_critical_nesting, calls, ticks, poolVars, s_processing, g_executing_handle, proc, ap,
                         fired, elapsed, isr_stop, follow, watch>>
     ELSE /\ next_generation' = generation
          /\ slots' = [slots EXCEPT ![free_slot] =
                         [period |-> TickCast(period_ms), expire_time |-> @.expire_time,
                          callback |-> callback, mode |-> mode, active |-> FALSE,
                          generation |-> generation % (2 ^ META_GEN_BITS)]]
          /\ used_bitmap' = used_bitmap \cup {free_slot}
          /\ last' = Returned("create", handle, "ok")
          /\ fired' = [fired EXCEPT ![free_slot] = 0]
          /\ elapsed' = [elapsed EXCEPT ![free_slot] = -1]
          /\ follow' = Forget(follow, free_slot)
          /\ watch' = IF track /\ watch.h = SAFETIMER_INVALID_HANDLE
                      THEN [h |-> handle, deleted |-> FALSE, creates |-> 0]
                      ELSE IF watch.h # SAFETIMER_INVALID_HANDLE
                      THEN [watch EXCEPT !.creates = Bump(@, HANDLE_GEN_MAX)]
                      ELSE watch
          /\ UNCHANGED <<cfg, sem, coro, s_critical_nesting, calls, ticks, s_processing, g_executing_handle, proc, ap, isr_stop>>

\* safetimer_start(handle)
Start(handle) ==
  LET slot_index == DECODE_INDEX(handle)
      start_tick == ticks
  IN IF ~validate_handle(handle)
     THEN Rejected("start")
     ELSE /\ slots' = [slots EXCEPT ![slot_index] =
                         [update_expire_time(@, start_tick) EXCEPT !.active = TRUE]]
          /\ last' = Returned("start", TIMER_OK, "ok")
          /\ fired' = [fired EXCEPT ![slot_index] = 0]
          /\ elapsed' = [elapsed EXCEPT ![slot_index] = 0]
          /\ follow' = Forget(follow, slot_index)
          /\ isr_stop' = IF /\ ap.pc = "div"
                            /\ ap.slot_index = slot_index
                            /\ \/ ~slots[slot_index].active
                               \/ slots[slot_index].expire_time
                                    # TickCast(start_tick + slots[slot_index].period)
                         THEN "advance"
                         ELSE IF proc.pc \in {"div", "recheck", "invoke"} /\ proc.i = slot_index
                         THEN "none" ELSE isr_stop
          /\ UNCHANGED <<cfg, sem, coro, s_critical_nesting, calls, ticks, used_bitmap, next_generation, s_processing,
                         g_executing_handle, proc, ap, watch>>

\* A stop that reports success without clearing the active flag.
Stop_keeps_active(handle) ==
  IF ~validate_handle(handle)
  THEN Rejected("stop")
  ELSE /\ last' = Returned("stop", TIMER_OK, "ok")
       /\ UNCHANGED <<cfg, sem, coro, s_critical_nesting, calls, ticks, poolVars, s_processing, g_executing_handle, proc, ap,
                      fired, elapsed, isr_stop, follow, watch>>

\* safetimer_stop(handle)
Stop(handle) ==
  LET slot_index == DECODE_INDEX(handle)
  IN IF ~validate_handle(handle)
     THEN Rejected("stop")
     ELSE /\ slots' = [slots EXCEPT ![slot_index].active = FALSE]
          /\ last' = Returned("stop", TIMER_OK, "ok")
          /\ elapsed' = [elapsed EXCEPT ![slot_index] = -1]
          /\ follow' = Forget(follow, slot_index)
          /\ isr_stop' = IF ap.pc = "div" /\ ap.slot_index = slot_index /\ slots[slot_index].active
                         THEN "advance"
                         ELSE IF proc.i = slot_index /\ proc.pc \in {"div", "recheck"} THEN "early"
                         ELSE IF proc.i = slot_index /\ proc.pc = "invoke" THEN "late"
                         ELSE isr_stop
          /\ UNCHANGED <<cfg, sem, coro, s_critical_nesting, calls, ticks, used_bitmap, next_generation, s_processing,
                         g_executing_handle, proc, ap, fired, watch>>

\* A delete that releases the slot without clearing the active flag.
Delete_keeps_active(handle) ==
  LET slot_index == DECODE_INDEX(handle)
  IN IF ~validate_handle(handle)
     THEN Rejected("delete")
     ELSE /\ used_bitmap' = used_bitmap \ {slot_index}
          /\ last' = Returned("delete", TIMER_OK, "ok")
          /\ elapsed' = [elapsed EXCEPT ![slot_index] = -1]
          /\ follow' = Forget(follow, slot_index)
          /\ watch' = IF /\ watch.h # SAFETIMER_INVALID_HANDLE
                         /\ ENCODE_HANDLE(DECODE_GEN(handle), slot_index) = watch.h
                      THEN [watch EXCEPT !.deleted = TRUE]
                      ELSE watch
          /\ UNCHANGED <<cfg, sem, coro, s_critical_nesting, calls, ticks, slots, next_generation,
                         s_processing, g_executing_handle, proc, ap, fired, isr_stop>>

\* A delete that also resets the generation stored in the slot.
Delete_clears_generation(handle) ==
  LET slot_index == DECODE_INDEX(handle)
  IN IF ~validate_handle(handle)
     THEN Rejected("delete")
     ELSE /\ slots' = [slots EXCEPT ![slot_index].active = FALSE,
                                    ![slot_index].generation = 0]
          /\ used_bitmap' = used_bitmap \ {slot_index}
          /\ last' = Returned("delete", TIMER_OK, "ok")
          /\ elapsed' = [elapsed EXCEPT ![slot_index] = -1]
          /\ follow' = Forget(follow, slot_index)
          /\ watch' = IF /\ watch.h # SAFETIMER_INVALID_HANDLE
                         /\ ENCODE_HANDLE(DECODE_GEN(handle), slot_index) = watch.h
                      THEN [watch EXCEPT !.deleted = TRUE]
                      ELSE watch
          /\ UNCHANGED <<cfg, sem, coro, s_critical_nesting, calls, ticks, next_generation, s_processing,
                         g_executing_handle, proc, ap, fired, isr_stop>>

\* safetimer_delete(handle)
Delete(handle) ==
  LET slot_index == DECODE_INDEX(handle)
  IN IF ~validate_handle(handle)
     THEN Rejected("delete")
     ELSE /\ slots' = [slots EXCEPT ![slot_index].active = FALSE]
          /\ used_bitmap' = used_bitmap \ {slot_index}
          /\ last' = Returned("delete", TIMER_OK, "ok")
          /\ elapsed' = [elapsed EXCEPT ![slot_index] = -1]
          /\ follow' = Forget(follow, slot_index)
          /\ watch' = IF /\ watch.h # SAFETIMER_INVALID_HANDLE
                         /\ ENCODE_HANDLE(DECODE_GEN(handle), slot_index) = watch.h
                      THEN [watch EXCEPT !.deleted = TRUE]
                      ELSE watch
          /\ UNCHANGED <<cfg, sem, coro, s_critical_nesting, calls, ticks, next_generation, s_processing,
                         g_executing_handle, proc, ap, fired, isr_stop>>

\* A set_period that re-arms the timer whether it is active or not.
SetPeriodSlot_rearm_always(slot, current_tick, new_period_ms) ==
  [slot EXCEPT !.period = TickCast(new_period_ms),
               !.expire_time = TickCast(current_tick + TickCast(new_period_ms))]

\* What set_period writes to the slot inside its critical section: the period, and
\* for an active timer the expiry counted from now.
SetPeriodSlot(slot, current_tick, new_period_ms) ==
  IF slot.active
  THEN [slot EXCEPT !.period = TickCast(new_period_ms),
                    !.expire_time = TickCast(current_tick + TickCast(new_period_ms))]
  ELSE [slot EXCEPT !.period = TickCast(new_period_ms)]

\* safetimer_set_period(handle, new_period_ms)
SetPeriod(handle, new_period_ms) ==
  LET slot_index == DECODE_INDEX(handle)
      current_tick == ticks
  IN IF ~PeriodAccepted(new_period_ms) \/ ~validate_handle(handle)
     THEN Rejected("set_period")
     ELSE /\ slots' = [slots EXCEPT ![slot_index] =
                         SetPeriodSlot(@, current_tick, new_period_ms)]
          /\ last' = Returned("set_period", TIMER_OK,
                              IF slots[slot_index].active THEN "active" ELSE "inactive")
          /\ elapsed' = [elapsed EXCEPT ![slot_index] = IF slots[slot_index].active THEN 0 ELSE -1]
          /\ follow' = Forget(follow, slot_index)
          /\ UNCHANGED <<cfg, sem, coro, s_critical_nesting, calls, ticks, used_bitmap, next_generation, s_processing,
                         g_executing_handle, proc, ap, fired, isr_stop, watch>>

\* A count of missed periods that leaves out the period being entered.
MissedPeriods_floor(lag, period) == lag \div period

\* missed_periods = ((uint32_t)lag / period) + 1, the number of whole periods
\* that the catch-up paths of trigger_timer and advance_period add.
MissedPeriods(lag, period) == (lag \div period) + 1

\* safetimer_advance_period(handle, new_period_ms), up to its return or, on the
\* catch-up path, up to the bsp_exit_critical that precedes the division.
AdvancePeriod(handle, new_period_ms) ==
  LET slot_index == DECODE_INDEX(handle)
      current_tick == ticks
      prev_period == slots[slot_index].period
      old_expire_snapshot == slots[slot_index].expire_time
      old_active_snapshot == slots[slot_index].active
      last_expire == TickCast(old_expire_snapshot - prev_period)
      new_expire == TickCast(last_expire + TickCast(new_period_ms))
      lag == safetimer_tick_diff(current_tick, new_expire)
  IN IF ~PeriodAccepted(new_period_ms) \/ ~validate_handle(handle)
     THEN Rejected("advance_period")
     ELSE /\ elapsed' = IF old_active_snapshot /\ lag >= 0 THEN elapsed
                         ELSE [elapsed EXCEPT ![slot_index] = -1]
          /\ follow' = Forget(follow, slot_index)
          /\ UNCHANGED <<cfg, sem, coro, s_critical_nesting, calls, ticks, used_bitmap, next_generation, s_processing,
                         g_executing_handle, proc, fired, isr_stop, watch>>
          /\ IF old_active_snapshot
             THEN IF lag >= 0
                  THEN /\ slots' = [slots EXCEPT ![slot_index].period = TickCast(new_period_ms)]
                       /\ ap' = [pc |-> "div", handle |-> handle, slot_index |-> slot_index,
                                 new_period_ms |-> new_period_ms, lag |-> lag,
                                 new_expire |-> new_expire,
                                 old_expire_snapshot |-> old_expire_snapshot,
                                 old_active_snapshot |-> old_active_snapshot]
                       /\ UNCHANGED last
                  ELSE /\ slots' = [slots EXCEPT ![slot_index].period = TickCast(new_period_ms),
                                                 ![slot_index].expire_time = new_expire]
                       /\ last' = Returned("advance_period", TIMER_OK, "direct")
                       /\ UNCHANGED ap
             ELSE /\ slots' = [slots EXCEPT ![slot_index].period = TickCast(new_period_ms),
                                            ![slot_index].expire_time =
                                               TickCast(current_tick + TickCast(new_period_ms))]
                  /\ last' = Returned("advance_period", TIMER_OK, "inactive")
                  /\ UNCHANGED ap

\* The rest of the catch-up path: the division outside the critical section, then
\* the re-validated write of expire_time and the return.
AdvancePeriodFinish ==
  LET i == ap.slot_index
      missed_periods == MissedPeriods(ap.lag, ap.new_period_ms)
      new_expire == TickCast(ap.new_expire + TickCast(missed_periods * ap.new_period_ms))
      untouched == /\ slots[i].expire_time = ap.old_expire_snapshot
                   /\ slots[i].active = ap.old_active_snapshot
  IN /\ ap.pc = "div"
     /\ slots' = IF untouched THEN [slots EXCEPT ![i].expire_time = new_expire] ELSE slots
     /\ ap' = ApIdle
     /\ last' = Returned("advance_period", TIMER_OK,
                         IF untouched THEN "catchup" ELSE "kept")
     /\ elapsed' = [elapsed EXCEPT ![i] = -1]
     /\ isr_stop' = IF isr_stop = "advance" THEN "none" ELSE isr_stop
     /\ UNCHANGED <<cfg, sem, coro, s_critical_nesting, calls, ticks, used_bitmap, next_generation, s_processing,
                    g_executing_handle, proc, fired, follow, watch>>

(* ---------- safetimer_process ---------- *)

\* A loop step that examines the same slot again instead of moving on.
ProcAfter_same_slot(i) ==
  [ProcIdle EXCEPT !.pc = "check", !.i = i, !.current_tick = proc.current_tick]

\* The frame after slot i is done: the next slot, or the end of the sweep.
ProcAfter(i) ==
  IF i + 1 < MAX_TIMERS
  THEN [ProcIdle EXCEPT !.pc = "check", !.i = i + 1, !.current_tick = proc.current_tick]
  ELSE ProcIdle

\* A safetimer_process without the recursion guard: every call starts a sweep.
ProcessCall_unguarded ==
  /\ MainCtx
  /\ s_processing' = TRUE
  /\ proc' = [ProcIdle EXCEPT !.pc = "check", !.current_tick = ticks]
  /\ follow' = [prev |-> follow.cur, cur |-> NoFollow.cur]
  /\ UNCHANGED <<cfg, sem, coro, s_critical_nesting, calls, ticks, poolVars, g_executing_handle, ap, fired, elapsed, isr_stop,
                 watch, last>>

\* A call of safetimer_process: a no-op while a sweep is running, else the guard
\* is set and the tick is read once.
ProcessCall ==
  /\ MainCtx
  /\ IF s_processing
     THEN /\ last' = Returned("process", TIMER_OK, "nested")
          /\ UNCHANGED <<s_processing, proc, follow>>
     ELSE /\ s_processing' = TRUE
          /\ proc' = [ProcIdle EXCEPT !.pc = "check", !.current_tick = ticks]
          /\ follow' = [prev |-> follow.cur, cur |-> NoFollow.cur]
          /\ UNCHANGED last
  /\ UNCHANGED <<cfg, sem, coro, s_critical_nesting, calls, ticks, poolVars, g_executing_handle, ap, fired, elapsed, isr_stop, watch>>

\* An expiry test that reads the tick source again for each slot.
Expired_rereads_tick(current_tick, slot) == safetimer_tick_diff(ticks, slot.expire_time) >= 0

\* The expiry test of the sweep.
Expired(current_tick, slot) == safetimer_tick_diff(current_tick, slot.expire_time) >= 0

\* A trigger_timer that leaves a ONE_SHOT timer active.
trigger_timer_keeps_active(slot) ==
  IF slot.mode = TIMER_MODE_REPEAT /\ cfg.catchup
  THEN [slot EXCEPT !.expire_time = TickCast(@ + slot.period)]
  ELSE slot

\* A trigger_timer that also clears the period of the ONE_SHOT timer it retires.
trigger_timer_clears_period(slot) ==
  IF slot.mode = TIMER_MODE_ONE_SHOT
  THEN [slot EXCEPT !.active = FALSE, !.period = 0]
  ELSE IF cfg.catchup
  THEN [slot EXCEPT !.expire_time = TickCast(@ + slot.period)]
  ELSE slot

\* A trigger_timer whose catch-up step skips one scheduled instant.
trigger_timer_two_periods(slot) ==
  IF slot.mode = TIMER_MODE_ONE_SHOT
  THEN [slot EXCEPT !.active = FALSE]
  ELSE IF cfg.catchup
  THEN [slot EXCEPT !.expire_time = TickCast(@ + 2 * slot.period)]
  ELSE slot

\* What trigger_timer writes to the slot before it leaves the critical section:
\* ONE_SHOT is deactivated; REPEAT is advanced by one period in catch-up mode and
\* left for the division in coalescing mode.
trigger_timer(slot) ==
  IF slot.mode = TIMER_MODE_ONE_SHOT
  THEN [slot EXCEPT !.active = FALSE]
  ELSE IF cfg.catchup
  THEN [slot EXCEPT !.expire_time = TickCast(@ + slot.period)]
  ELSE slot

\* What the observer sees when a step ends the sweep: process has returned.
ProcLast(frame) ==
  IF frame.pc = "idle" THEN Returned("process", TIMER_OK, "swept") ELSE last

\* The first critical section of one loop iteration: the active and expiry tests
\* and trigger_timer up to the point where it leaves the critical section.
ProcessCheck ==
  LET i == proc.i
      slot == slots[i]
      done == /\ proc' = IF slot.callback # NULL
                         THEN [proc EXCEPT !.pc = "recheck", !.callback = slot.callback,
                                           !.captured_gen = slot.generation,
                                           !.captured_mode = slot.mode]
                         ELSE ProcAfter(i)
              /\ s_processing' = (slot.callback # NULL \/ i + 1 < MAX_TIMERS)
  IN /\ proc.pc = "check"
     /\ IF ~slot.active \/ ~Expired(proc.current_tick, slot)
        THEN /\ proc' = ProcAfter(i)
             /\ s_processing' = (i + 1 < MAX_TIMERS)
             /\ UNCHANGED <<slots, elapsed>>
        ELSE /\ elapsed' = [elapsed EXCEPT ![i] = -1]
             /\ slots' = [slots EXCEPT ![i] = trigger_timer(slot)]
             /\ IF slot.mode = TIMER_MODE_ONE_SHOT \/ cfg.catchup
                THEN done
                ELSE /\ proc' = [proc EXCEPT !.pc = "div", !.callback = slot.callback,
                                             !.captured_gen = slot.generation,
                                             !.captured_mode = slot.mode,
                                             !.old_expire = slot.expire_time,
                                             !.period = slot.period,
                                             !.old_active = slot.active]
                     /\ UNCHANGED s_processing
     /\ isr_stop' = "none"
     /\ last' = ProcLast(proc')
     /\ UNCHANGED <<cfg, sem, coro, s_critical_nesting, calls, ticks, used_bitmap, next_generation, g_executing_handle, ap,
                    fired, follow, watch>>

\* The new expiry that trigger_timer computes outside the critical section.
CoalescedExpire(current_tick, old_expire, period) ==
  LET lag == safetimer_tick_diff(current_tick, old_expire)
  IN IF lag >= 0
     THEN TickCast(old_expire + TickCast(MissedPeriods(lag, period) * period))
     ELSE TickCast(old_expire + period)

\* trigger_timer's coalescing path from the division to the re-validated write,
\* and the end of the iteration's first critical section.
ProcessDiv ==
  LET i == proc.i
      new_expire == CoalescedExpire(proc.current_tick, proc.old_expire, proc.period)
      untouched == /\ slots[i].expire_time = proc.old_expire
                   /\ slots[i].active = proc.old_active
  IN /\ proc.pc = "div"
     /\ slots' = IF untouched THEN [slots EXCEPT ![i].expire_time = new_expire] ELSE slots
     /\ elapsed' = IF untouched THEN [elapsed EXCEPT ![i] = -1] ELSE elapsed
     /\ proc' = IF proc.callback # NULL
                THEN [proc EXCEPT !.pc = "recheck", !.old_expire = 0, !.period = 0,
                                  !.old_active = FALSE]
                ELSE ProcAfter(i)
     /\ s_processing' = (proc.callback # NULL \/ i + 1 < MAX_TIMERS)
     /\ last' = ProcLast(proc')
     /\ UNCHANGED <<cfg, sem, coro, s_critical_nesting, calls, ticks, used_bitmap, next_generation, g_executing_handle, ap,
                    fired, isr_stop, follow, watch>>

\* A validity test that looks at the generation only.
StillValid_generation_only(slot, captured_gen, captured_mode) ==
  slot.generation = captured_gen

\* The validity test made before the callback is invoked.
StillValid(slot, captured_gen, captured_mode) ==
  /\ slot.generation = captured_gen
  /\ captured_mode = TIMER_MODE_REPEAT => slot.active

\* The second critical section: the re-check of generation and active flag.
ProcessRecheck ==
  LET i == proc.i
      valid == StillValid(slots[i], proc.captured_gen, proc.captured_mode)
  IN /\ proc.pc = "recheck"
     /\ proc' = IF valid THEN [proc EXCEPT !.pc = "invoke"] ELSE ProcAfter(i)
     /\ s_processing' = (valid \/ i + 1 < MAX_TIMERS)
     /\ isr_stop' = IF valid THEN isr_stop
                    ELSE IF isr_stop = "early" THEN "prevented" ELSE "none"
     /\ last' = ProcLast(proc')
     /\ UNCHANGED <<cfg, sem, coro, s_critical_nesting, calls, ticks, poolVars, g_executing_handle, ap,
                    fired, elapsed, follow, watch>>

\* g_executing_handle is set and the callback is entered.
ProcessInvoke ==
  LET i == proc.i
  IN /\ proc.pc = "invoke"
     /\ g_executing_handle' = ENCODE_HANDLE(proc.captured_gen, i)
     /\ proc' = [proc EXCEPT !.pc = "cb"]
     /\ fired' = [fired EXCEPT ![i] = Bump(@, ObsCap)]
     /\ follow' = [follow EXCEPT !.cur[i] = proc.current_tick]
     /\ UNCHANGED <<cfg, sem, coro, s_critical_nesting, calls, ticks, poolVars, s_processing, ap, last, elapsed, isr_stop, watch>>

\* A callback return that leaves the executing handle in place.
CallbackReturn_keeps_handle ==
  LET i == proc.i
  IN /\ proc.pc = "cb"
     /\ ap.pc = "idle"
     /\ proc' = ProcAfter(i)
     /\ s_processing' = (i + 1 < MAX_TIMERS)
     /\ isr_stop' = "none"
     /\ last' = ProcLast(proc')
     /\ UNCHANGED <<cfg, sem, coro, s_critical_nesting, calls, ticks, poolVars, g_executing_handle, ap,
                    fired, elapsed, follow, watch>>

\* The callback returns: the executing handle is cleared and the loop goes on.
CallbackReturn ==
  LET i == proc.i
  IN /\ proc.pc = "cb"
     /\ ap.pc = "idle"
     /\ g_executing_handle' = SAFETIMER_INVALID_HANDLE
     /\ proc' = ProcAfter(i)
     /\ s_processing' = (i + 1 < MAX_TIMERS)
     /\ isr_stop' = "none"
     /\ last' = ProcLast(proc')
     /\ UNCHANGED <<cfg, sem, coro, s_critical_nesting, calls, ticks, poolVars, ap, fired, elapsed, follow, watch>>

\* safetimer_get_current_handle()
safetimer_get_current_handle == g_executing_handle

(* ---------- the tick source ---------- *)

\* n tick interrupts with no call between them: the counter advances by n and
\* wraps at its width.
TickBy(n) ==
  /\ ticks' = (ticks + n) % TickMod
  /\ elapsed' = [i \in SlotIndices |->
                   IF elapsed[i] < 0 THEN elapsed[i]
                   ELSE IF elapsed[i] + n > TickMod THEN TickMod ELSE elapsed[i] + n]
  /\ follow' = NoFollow
  /\ last' = NoCall
  /\ UNCHANGED <<cfg, sem, coro, s_critical_nesting, calls, poolVars, s_processing, g_executing_handle, proc, ap,
                 fired, isr_stop, watch>>

\* The tick interrupt.
Tick == TickBy(1)

(* ---------- query ---------- *)

\* safetimer_get_remaining(handle, &remaining_ms): the return value and what is
\* stored through the pointer.
safetimer_get_remaining(handle) ==
  LET slot == slots[DECODE_INDEX(handle)]
      current_tick == ticks
      diff == safetimer_tick_diff(slot.expire_time, current_tick)
  IN IF ~validate_handle(handle)
     THEN [ret |-> TIMER_ERR_INVALID, remaining_ms |-> "unwritten"]
     ELSE [ret |-> TIMER_OK,
           remaining_ms |-> IF ~slot.active THEN 0 ELSE IF diff < 0 THEN 0 ELSE diff]

\* safetimer_get_status(handle, &is_running): the return value and what is stored
\* through the pointer.
safetimer_get_status(handle) ==
  IF ~validate_handle(handle)
  THEN [ret |-> TIMER_ERR_INVALID, is_running |-> "unwritten"]
  ELSE [ret |-> TIMER_OK,
        is_running |-> IF slots[DECODE_INDEX(handle)].active THEN 1 ELSE 0]

\* A call of safetimer_get_status: nothing but its return value is to be seen.
GetStatus(handle) ==
  /\ last' = Returned("get_status", safetimer_get_status(handle).ret,
                      IF validate_handle(handle) THEN "ok" ELSE "rejected")
  /\ UNCHANGED <<cfg, sem, coro, s_critical_nesting, calls, ticks, poolVars, s_processing, g_executing_handle, proc, ap,
                 fired, elapsed, isr_stop, follow, watch>>

\* A call of safetimer_get_remaining.
GetRemaining(handle) ==
  /\ last' = Returned("get_remaining", safetimer_get_remaining(handle).ret,
                      IF validate_handle(handle) THEN "ok" ELSE "rejected")
  /\ UNCHANGED <<cfg, sem, coro, s_critical_nesting, calls, ticks, poolVars, s_processing, g_executing_handle, proc, ap,
                 fired, elapsed, isr_stop, follow, watch>>

(* ---------- environments ---------- *)

\* Handle values a caller may pass: every encodable handle and the sentinel.
HandleInputs == (0 .. (2 ^ (HANDLE_GEN_BITS + HANDLE_INDEX_BITS) - 1)) \cup {SAFETIMER_INVALID_HANDLE}

\* The handles whose rejection is in question: the followed one and the sentinel.
StaleInputs == {watch.h, SAFETIMER_INVALID_HANDLE}

\* Specification of the handle life cycle: the tick stands still and every
\* operation may be called with every handle value.
InitHandle ==
  /\ cfg = [tick16 |-> TRUE, catchup |-> FALSE]
  /\ ticks = 0
  /\ InitPool

HCreate == MainCtx /\ \E track \in BOOLEAN : Create(1, TIMER_MODE_REPEAT, 1, track)

HStart == MainCtx /\ \E h \in StaleInputs : Start(h)

HStop == MainCtx /\ \E h \in StaleInputs : Stop(h)

HDelete == MainCtx /\ \E h \in HandleInputs : Delete(h)

HSetPeriod == MainCtx /\ \E h \in StaleInputs : SetPeriod(h, 1)

HAdvancePeriod == MainCtx /\ \E h \in StaleInputs : AdvancePeriod(h, 1)

NextHandle ==
  \/ HCreate
  \/ HStart
  \/ HStop
  \/ HDelete
  \/ HSetPeriod
  \/ HAdvancePeriod

SpecHandle == InitHandle /\ [][NextHandle]_vars

\* Handles of the allocated timers.
LiveHandles == {ENCODE_HANDLE(slots[i].generation, i) : i \in used_bitmap}

\* Periods a caller passes: short ones and the ones around half the tick range
\* and at its end (the tick type's maximum).
PeriodInputs == {1, 2, TickHalf - 1, TickHalf, TickHalf + 1}

\* Specification of timing: the main loop creates one timer, starts, stops and
\* re-periods it and calls process while the tick counter runs; callbacks call
\* the same operations.  No interrupt-context calls.
InitTime ==
  /\ cfg \in {[tick16 |-> t, catchup |-> FALSE] : t \in BOOLEAN}
  /\ ticks = 0
  /\ InitPool

TCreate ==
  /\ MainCtx
  /\ used_bitmap = {}
  /\ \E p \in PeriodInputs, m \in {TIMER_MODE_ONE_SHOT, TIMER_MODE_REPEAT} : Create(p, m, 1, FALSE)

TStart == MainCtx /\ \E h \in LiveHandles : Start(h)

TStop == MainCtx /\ \E h \in LiveHandles : Stop(h)

TSetPeriod == MainCtx /\ \E h \in LiveHandles, p \in PeriodInputs : SetPeriod(h, p)

TAdvancePeriod == MainCtx /\ \E h \in LiveHandles, p \in PeriodInputs : AdvancePeriod(h, p)

\* Time passes between the calls of the main loop.
TTick == proc.pc = "idle" /\ ap.pc = "idle" /\ Tick

NextTime ==
  \/ TCreate
  \/ TStart
  \/ TStop
  \/ TSetPeriod
  \/ TAdvancePeriod
  \/ AdvancePeriodFinish
  \/ ProcessCall
  \/ ProcessCheck
  \/ ProcessDiv
  \/ ProcessRecheck
  \/ ProcessInvoke
  \/ CallbackReturn
  \/ TTick

SpecTime == InitTime /\ [][NextTime]_vars

\* Specification of interrupts: start and stop run in interrupt context, between
\* any two steps of process and inside callbacks; the tick counter advances
\* between sweeps.
InitIsr ==
  /\ cfg \in {[tick16 |-> TRUE, catchup |-> c] : c \in BOOLEAN}
  /\ ticks = 0
  /\ InitPool

ICreate ==
  /\ MainCtx
  /\ used_bitmap = {}
  /\ \E p \in {1, 2}, m \in {TIMER_MODE_ONE_SHOT, TIMER_MODE_REPEAT} : Create(p, m, 1, FALSE)

IStart == \E h \in LiveHandles : Start(h)

IStop == \E h \in LiveHandles : Stop(h)

ITick == proc.pc = "idle" /\ Tick

NextIsr ==
  \/ ICreate
  \/ IStart
  \/ IStop
  \/ ProcessCall
  \/ ProcessCheck
  \/ ProcessDiv
  \/ ProcessRecheck
  \/ ProcessInvoke
  \/ CallbackReturn
  \/ ITick

SpecIsr == InitIsr /\ [][NextIsr]_vars

\* Specification of the periodic cycle: a REPEAT timer is created and started at
\* some tick, and from then on the main loop runs only at the timer's period
\* boundaries, where it calls process and then advance_period with the same period.
InitCycle ==
  /\ cfg \in {[tick16 |-> t, catchup |-> c] : t \in BOOLEAN, c \in BOOLEAN}
  /\ ticks = 0
  /\ InitPool

CIdleTick == used_bitmap = {} /\ Tick

CCreate ==
  /\ used_bitmap = {}
  /\ \E p \in 1 .. (TickMod - 1) : Create(p, TIMER_MODE_REPEAT, 1, FALSE)

CStart == last.op = "create" /\ \E h \in LiveHandles : Start(h)

CBoundary ==
  /\ last.op \in {"start", "advance_period"}
  /\ ap.pc = "idle"
  /\ \E i \in used_bitmap : TickBy(slots[i].period)

CProcess == last = NoCall /\ used_bitmap # {} /\ proc.pc = "idle" /\ ProcessCall

CAdvancePeriod ==
  /\ last.op = "process"
  /\ proc.pc = "idle"
  /\ \E h \in LiveHandles : AdvancePeriod(h, slots[DECODE_INDEX(h)].period)

NextCycle ==
  \/ CIdleTick
  \/ CCreate
  \/ CStart
  \/ CBoundary
  \/ CProcess
  \/ ProcessCheck
  \/ ProcessDiv
  \/ ProcessRecheck
  \/ ProcessInvoke
  \/ CallbackReturn
  \/ CAdvancePeriod
  \/ AdvancePeriodFinish

SpecCycle == InitCycle /\ [][NextCycle]_vars

\* Specification of the advance_period race: the main loop creates and starts a
\* timer and calls advance_period with a shorter period; while advance_period has
\* released the critical section for its division, start and stop run in interrupt
\* context and the tick counter may advance.
InitRace ==
  /\ cfg = [tick16 |-> FALSE, catchup |-> FALSE]
  /\ ticks = 0
  /\ InitPool

RCreate ==
  /\ MainCtx
  /\ used_bitmap = {}
  /\ Create(3, TIMER_MODE_REPEAT, 1, FALSE)

RAdvancePeriod == MainCtx /\ \E h \in LiveHandles, p \in {1, 2} : AdvancePeriod(h, p)

RStart ==
  \E h \in LiveHandles :
    /\ ap.pc = "div" \/ ~slots[DECODE_INDEX(h)].active
    /\ Start(h)

RStop == ap.pc = "div" /\ \E h \in LiveHandles : Stop(h)

RTick == (ap.pc = "div" \/ \E i \in used_bitmap : slots[i].active) /\ Tick

NextRace ==
  \/ RCreate
  \/ RAdvancePeriod
  \/ AdvancePeriodFinish
  \/ RStart
  \/ RStop
  \/ RTick

SpecRace == InitRace /\ [][NextRace]_vars

\* Arguments of create: period 0, a valid period, one above the signed half of the
\* tick range and one above the tick type's maximum; the two modes and a value
\* that is neither; with and without a callback.
CreatePeriodInputs == {0, 1, TickHalf, TickMod}

CreateModeInputs == {TIMER_MODE_ONE_SHOT, TIMER_MODE_REPEAT, TIMER_MODE_REPEAT + 1}

CallbackInputs == {NULL, 1}

\* Specification of allocation: the tick stands still; create is called with valid
\* and invalid arguments and allocated timers are deleted.
InitAlloc ==
  /\ cfg \in {[tick16 |-> t, catchup |-> FALSE] : t \in BOOLEAN}
  /\ ticks = 0
  /\ InitPool

ACreate ==
  /\ MainCtx
  /\ \E p \in CreatePeriodInputs, m \in CreateModeInputs, cb \in CallbackInputs :
       Create(p, m, cb, FALSE)

ADelete == MainCtx /\ \E h \in LiveHandles : Delete(h)

NextAlloc ==
  \/ ACreate
  \/ ADelete

SpecAlloc == InitAlloc /\ [][NextAlloc]_vars

\* Values of type safetimer_handle_t (an int) a caller may pass: every value of the
\* index and generation fields, the same with the next higher bit set, and
\* SAFETIMER_INVALID_HANDLE.
WideHandleInputs ==
  (0 .. (2 ^ (HANDLE_GEN_BITS + HANDLE_INDEX_BITS + 1) - 1)) \cup {SAFETIMER_INVALID_HANDLE}

\* Specification of handle checking: the tick stands still; timers are created
\* and every handle-taking operation is called with every value of WideHandleInputs.
InitWide ==
  /\ cfg = [tick16 |-> FALSE, catchup |-> FALSE]
  /\ ticks = 0
  /\ InitPool

WCreate == MainCtx /\ Create(1, TIMER_MODE_REPEAT, 1, FALSE)

WStart == MainCtx /\ \E h \in WideHandleInputs : Start(h)

WStop == MainCtx /\ \E h \in WideHandleInputs : Stop(h)

WDelete == MainCtx /\ \E h \in WideHandleInputs : Delete(h)

WSetPeriod == MainCtx /\ \E h \in WideHandleInputs, p \in CreatePeriodInputs : SetPeriod(h, p)

WAdvancePeriod == MainCtx /\ \E h \in WideHandleInputs, p \in CreatePeriodInputs : AdvancePeriod(h, p)

WGetStatus == MainCtx /\ \E h \in WideHandleInputs : GetStatus(h)

WGetRemaining == MainCtx /\ \E h \in WideHandleInputs : GetRemaining(h)

NextWide ==
  \/ WCreate
  \/ WStart
  \/ WStop
  \/ WDelete
  \/ WSetPeriod
  \/ WAdvancePeriod
  \/ WGetStatus
  \/ WGetRemaining

SpecWide == InitWide /\ [][NextWide]_vars

\* The handles released by delete whose slot no create has taken since: the slot
\* is free and still carries the generation of its last occupant.
FreedHandles ==
  {ENCODE_HANDLE(slots[i].generation, i) :
     i \in {j \in SlotIndices \ used_bitmap : slots[j].generation # 0}}

\* Specification of deleted handles: the tick stands still; timers are created, and
\* every handle-taking operation is called with the handles of allocated timers
\* and with the handles of deleted timers whose slot is still free.
InitFreed ==
  /\ cfg = [tick16 |-> FALSE, catchup |-> FALSE]
  /\ ticks = 0
  /\ InitPool

FCreate == MainCtx /\ Create(1, TIMER_MODE_REPEAT, 1, FALSE)

FStart == MainCtx /\ \E h \in LiveHandles \cup FreedHandles : Start(h)

FStop == MainCtx /\ \E h \in LiveHandles \cup FreedHandles : Stop(h)

FDelete == MainCtx /\ \E h \in LiveHandles \cup FreedHandles : Delete(h)

FSetPeriod == MainCtx /\ \E h \in LiveHandles \cup FreedHandles : SetPeriod(h, 1)

FAdvancePeriod == MainCtx /\ \E h \in LiveHandles \cup FreedHandles : AdvancePeriod(h, 1)

FGetStatus == MainCtx /\ \E h \in LiveHandles \cup FreedHandles : GetStatus(h)

FGetRemaining == MainCtx /\ \E h \in LiveHandles \cup FreedHandles : GetRemaining(h)

NextFreed ==
  \/ FCreate
  \/ FStart
  \/ FStop
  \/ FDelete
  \/ FSetPeriod
  \/ FAdvancePeriod
  \/ FGetStatus
  \/ FGetRemaining

SpecFreed == InitFreed /\ [][NextFreed]_vars

\* Specification of wraparound: the tick counter starts anywhere in its range
\* (mock_bsp_set_ticks); a ONE_SHOT timer with a period below half the range is
\* created and started, time passes between the calls, and process sweeps.
InitWrap ==
  /\ cfg \in {[tick16 |-> t, catchup |-> FALSE] : t \in BOOLEAN}
  /\ ticks \in Ticks
  /\ InitPool

XCreate ==
  /\ proc.pc = "idle"
  /\ used_bitmap = {}
  /\ \E p \in 1 .. (TickHalf - 1) : Create(p, TIMER_MODE_ONE_SHOT, 1, FALSE)

XStart == proc.pc = "idle" /\ \E h \in LiveHandles : Start(h)

XTick == proc.pc = "idle" /\ Tick

XProcess == proc.pc = "idle" /\ ProcessCall

NextWrap ==
  \/ XCreate
  \/ XStart
  \/ XTick
  \/ XProcess
  \/ ProcessCheck
  \/ ProcessRecheck
  \/ ProcessInvoke
  \/ CallbackReturn

SpecWrap == InitWrap /\ [][NextWrap]_vars

\* Specification of restarts: one timer of either mode is created with any period
\* create accepts; the main loop and the callbacks start it again at any tick;
\* time passes between the calls and process sweeps.
InitRestart ==
  /\ cfg \in {[tick16 |-> t, catchup |-> FALSE] : t \in BOOLEAN}
  /\ ticks = 0
  /\ InitPool

SCreate ==
  /\ proc.pc = "idle"
  /\ used_bitmap = {}
  /\ \E p \in PeriodInputs, m \in {TIMER_MODE_ONE_SHOT, TIMER_MODE_REPEAT} :
       Create(p, m, 1, FALSE)

SStart == MainCtx /\ \E h \in LiveHandles : Start(h)

STick == proc.pc = "idle" /\ Tick

SProcess == proc.pc = "idle" /\ ProcessCall

NextRestart ==
  \/ SCreate
  \/ SStart
  \/ STick
  \/ SProcess
  \/ ProcessCheck
  \/ ProcessDiv
  \/ ProcessRecheck
  \/ ProcessInvoke
  \/ CallbackReturn

SpecRestart == InitRestart /\ [][NextRestart]_vars

\* Specification of stop: one timer of either mode with a short period; the
\* main loop and the timer's callback start and stop it; time passes
\* between the calls and process sweeps.  No interrupt-context calls.
InitStop ==
  /\ cfg \in {[tick16 |-> FALSE, catchup |-> c] : c \in BOOLEAN}
  /\ ticks = 0
  /\ InitPool

OCreate ==
  /\ proc.pc = "idle"
  /\ used_bitmap = {}
  /\ \E p \in {1, 2}, m \in {TIMER_MODE_ONE_SHOT, TIMER_MODE_REPEAT} : Create(p, m, 1, FALSE)

OStart == MainCtx /\ \E h \in LiveHandles : Start(h)

OStop == MainCtx /\ \E h \in LiveHandles : Stop(h)

OTick == proc.pc = "idle" /\ Tick

OProcess == proc.pc = "idle" /\ ProcessCall

NextStop ==
  \/ OCreate
  \/ OStart
  \/ OStop
  \/ OTick
  \/ OProcess
  \/ ProcessCheck
  \/ ProcessDiv
  \/ ProcessRecheck
  \/ ProcessInvoke
  \/ CallbackReturn

SpecStop == InitStop /\ [][NextStop]_vars

\* Specification of the sweep order: MAX_TIMERS timers of either mode with period
\* 1 are created at tick 0; stopped timers are started between sweeps, time
\* passes between sweeps, and process is called from the main loop and from
\* callbacks.
InitOrder ==
  /\ cfg = [tick16 |-> FALSE, catchup |-> FALSE]
  /\ ticks = 0
  /\ InitPool

QCreate ==
  /\ proc.pc = "idle"
  /\ \E m \in {TIMER_MODE_ONE_SHOT, TIMER_MODE_REPEAT} : Create(1, m, 1, FALSE)

QStart ==
  /\ proc.pc = "idle"
  /\ \E h \in LiveHandles : ~slots[DECODE_INDEX(h)].active /\ Start(h)

QTick == proc.pc = "idle" /\ used_bitmap = SlotIndices /\ Tick

NextOrder ==
  \/ QCreate
  \/ QStart
  \/ QTick
  \/ ProcessCall
  \/ ProcessCheck
  \/ ProcessDiv
  \/ ProcessRecheck
  \/ ProcessInvoke
  \/ CallbackReturn

SpecOrder == InitOrder /\ [][NextOrder]_vars

\* Specification of the tick snapshot: as SpecOrder, and one tick interrupt may
\* arrive while the callback of the first slot is running and the second timer
\* is active.
NextSnapshot ==
  \/ QCreate
  \/ QStart
  \/ QTick
  \/ proc.pc = "cb" /\ proc.i = 0 /\ slots[1].active /\ ticks = proc.current_tick /\ Tick
  \/ ProcessCall
  \/ ProcessCheck
  \/ ProcessDiv
  \/ ProcessRecheck
  \/ ProcessInvoke
  \/ CallbackReturn

SpecSnapshot == InitOrder /\ [][NextSnapshot]_vars

\* Specification of two timers side by side: the main loop creates two timers,
\* calls every handle-taking operation on either of them and sweeps, while the
\* tick advances by as many steps as there are timers.
NextFrame ==
  \/ next_generation < MAX_TIMERS /\ QCreate
  \/ MainCtx /\ proc.pc = "idle" /\ \E h \in LiveHandles : Start(h)
  \/ MainCtx /\ proc.pc = "idle" /\ \E h \in LiveHandles : Stop(h)
  \/ MainCtx /\ proc.pc = "idle" /\ \E h \in LiveHandles : Delete(h)
  \/ MainCtx /\ proc.pc = "idle" /\ \E h \in LiveHandles : SetPeriod(h, 2)
  \/ MainCtx /\ proc.pc = "idle" /\ \E h \in LiveHandles : AdvancePeriod(h, 2)
  \/ AdvancePeriodFinish
  \/ MainCtx /\ proc.pc = "idle" /\ ticks < MAX_TIMERS /\ used_bitmap = SlotIndices /\ Tick
  \/ MainCtx /\ proc.pc = "idle" /\ ProcessCall
  \/ ProcessCheck
  \/ ProcessDiv
  \/ ProcessRecheck
  \/ ProcessInvoke
  \/ CallbackReturn

SpecFrame == InitOrder /\ [][NextFrame]_vars

(* ---------- the create-and-start helpers ---------- *)

\* A create_started that returns the handle of the created timer without
\* starting it.
safetimer_create_started_no_start(pool, period_ms, mode, callback) ==
  LET free == {i \in SlotIndices : i \notin pool.used_bitmap}
      free_slot == IF free = {} THEN -1
                   ELSE CHOOSE i \in free : \A j \in free : i <= j
      generation == SkipSentinel(NextGeneration(pool.next_generation), free_slot)
  IN IF \/ ~PeriodAccepted(period_ms)
        \/ mode \notin {TIMER_MODE_ONE_SHOT, TIMER_MODE_REPEAT}
        \/ free_slot < 0
     THEN [pool |-> pool, handle |-> SAFETIMER_INVALID_HANDLE]
     ELSE [pool |-> [slots |-> [pool.slots EXCEPT ![free_slot] =
                                  [period |-> TickCast(period_ms),
                                   expire_time |-> @.expire_time,
                                   callback |-> callback, mode |-> mode, active |-> FALSE,
                                   generation |-> generation % (2 ^ META_GEN_BITS)]],
                     used_bitmap |-> pool.used_bitmap \cup {free_slot},
                     next_generation |-> generation],
           handle |-> ENCODE_HANDLE(generation, free_slot)]

\* safetimer_create_started(period_ms, mode, callback, user_data) applied to the
\* pool value pool at the current tick: safetimer_create, then safetimer_start
\* of the new handle, and safetimer_delete of it if the start is refused.  The
\* result is the pool after the call and the returned handle.
safetimer_create_started(pool, period_ms, mode, callback) ==
  LET free == {i \in SlotIndices : i \notin pool.used_bitmap}
      free_slot == IF free = {} THEN -1
                   ELSE CHOOSE i \in free : \A j \in free : i <= j
      generation == SkipSentinel(NextGeneration(pool.next_generation), free_slot)
      handle == ENCODE_HANDLE(generation, free_slot)
      created == [slots |-> [pool.slots EXCEPT ![free_slot] =
                               [period |-> TickCast(period_ms),
                                expire_time |-> @.expire_time,
                                callback |-> callback, mode |-> mode, active |-> FALSE,
                                generation |-> generation % (2 ^ META_GEN_BITS)]],
                  used_bitmap |-> pool.used_bitmap \cup {free_slot},
                  next_generation |-> generation]
      slot_index == DECODE_INDEX(handle)
      valid == /\ slot_index < MAX_TIMERS
               /\ slot_index \in created.used_bitmap
               /\ DECODE_GEN(handle) = created.slots[slot_index].generation
  IN IF \/ ~PeriodAccepted(period_ms)
        \/ mode \notin {TIMER_MODE_ONE_SHOT, TIMER_MODE_REPEAT}
        \/ free_slot < 0
     THEN [pool |-> pool, handle |-> SAFETIMER_INVALID_HANDLE]
     ELSE IF valid
     THEN [pool |-> [created EXCEPT !.slots[slot_index] =
                       [update_expire_time(@, ticks) EXCEPT !.active = TRUE]],
           handle |-> handle]
     \* start refused the handle: delete validates it the same way and refuses
     \* it too, so the created timer stays allocated.
     ELSE [pool |-> created, handle |-> SAFETIMER_INVALID_HANDLE]

\* safetimer_create_started_batch(count, period_ms, mode, callbacks, user_data,
\* handles) with both arrays given: the pool, handles[0 .. count-1] and
\* success_count after the loop has run count times.
RECURSIVE safetimer_create_started_batch(_, _, _, _, _)
safetimer_create_started_batch(pool, count, period_ms, mode, callbacks) ==
  IF count = 0
  THEN [pool |-> pool, handles |-> <<>>, success_count |-> 0]
  ELSE LET before == safetimer_create_started_batch(pool, count - 1, period_ms, mode,
                                                    callbacks)
           made == safetimer_create_started(before.pool, period_ms, mode,
                                            callbacks[count])
       IN [pool |-> made.pool,
           handles |-> Append(before.handles, made.handle),
           success_count |-> IF made.handle # SAFETIMER_INVALID_HANDLE
                             THEN before.success_count + 1
                             ELSE before.success_count]

\* Specification of the batch helper: the main loop calls
\* safetimer_create_started_batch with counts up to two more than the pool
\* holds, with and without its arrays and with accepted and refused periods,
\* and deletes timers, from some tick on.  last
\* keeps the call's count (the length of handles), the handle array and whether
\* the parameters were valid.
NextBatch ==
  \/ \E count \in 0 .. (MAX_TIMERS + 2), period_ms \in {0, 1},
        mode \in {TIMER_MODE_REPEAT}, callback \in {1}, arrays \in BOOLEAN :
       LET r == IF arrays
                THEN safetimer_create_started_batch(
                       [slots |-> slots, used_bitmap |-> used_bitmap,
                        next_generation |-> next_generation],
                       count, period_ms, mode, [k \in 1 .. count |-> callback])
                ELSE [pool |-> [slots |-> slots, used_bitmap |-> used_bitmap,
                                next_generation |-> next_generation],
                      handles |-> [k \in 1 .. count |-> SAFETIMER_INVALID_HANDLE],
                      success_count |-> 0]
           started == r.pool.used_bitmap \ used_bitmap
       IN /\ slots' = r.pool.slots
          /\ used_bitmap' = r.pool.used_bitmap
          /\ next_generation' = r.pool.next_generation
          /\ last' = [op |-> "create_started_batch", ret |-> r.success_count,
                      path |-> IF arrays /\ PeriodAccepted(period_ms)
                               THEN "valid" ELSE "invalid",
                      handles |-> r.handles]
          /\ fired' = [i \in SlotIndices |-> IF i \in started THEN 0 ELSE fired[i]]
          /\ elapsed' = [i \in SlotIndices |-> IF i \in started THEN 0 ELSE elapsed[i]]
          /\ follow' = NoFollow
          /\ UNCHANGED <<cfg, sem, coro, s_critical_nesting, calls, ticks, s_processing,
                         g_executing_handle, proc, ap, isr_stop, watch>>
  \/ \E h \in LiveHandles : Delete(h)
  \/ used_bitmap = {} /\ next_generation = 0 /\ ticks < MAX_TIMERS /\ Tick

SpecBatch == InitOrder /\ [][NextBatch]_vars

\* The tick source of the main-loop specification: after a process call has
\* returned, fewer than half the tick range of tick interrupts arrive before the
\* next one.
MTick ==
  /\ proc.pc = "idle"
  /\ last.op = "process"
  /\ \E n \in 1 .. (TickHalf - 1) : TickBy(n)

\* Specification of the main loop: one REPEAT timer with a callback is created
\* and started once and never stopped, restarted, re-perioded or deleted; the
\* main loop calls process again and again while the tick advances.
NextMainLoop ==
  \/ /\ proc.pc = "idle" /\ used_bitmap = {}
     /\ \E p \in PeriodInputs : Create(p, TIMER_MODE_REPEAT, 1, FALSE)
  \/ /\ proc.pc = "idle"
     /\ \E h \in LiveHandles : ~slots[DECODE_INDEX(h)].active /\ Start(h)
  \/ MTick
  \/ proc.pc = "idle" /\ ProcessCall
  \/ ProcessCheck
  \/ ProcessDiv
  \/ ProcessRecheck
  \/ ProcessInvoke
  \/ CallbackReturn

SpecMainLoop == InitCycle /\ [][NextMainLoop]_vars

\* The main loop never stops calling (weak fairness of the loop's steps) and the
\* tick interrupt keeps arriving however often process is called (strong
\* fairness of the tick, which is only counted between two sweeps).
FairMainLoop == SpecMainLoop /\ WF_vars(NextMainLoop) /\ SF_vars(MTick)

\* Specification of the slot life cycle under interrupts: the main loop creates,
\* starts and deletes one timer and sweeps; its safetimer_start is followed in two
\* steps, the handle check and tick read and then the critical section, and
\* interrupt handlers call start and stop at any point, and delete and create
\* between the steps of a sweep up to its re-check.
LCreate ==
  /\ calls = <<>>
  /\ ap.pc = "idle"
  /\ proc.pc # "invoke"
  /\ used_bitmap = {}
  /\ \E m \in {TIMER_MODE_ONE_SHOT, TIMER_MODE_REPEAT} : Create(1, m, 1, FALSE)

LDelete ==
  /\ calls = <<>>
  /\ proc.pc # "invoke"
  /\ \E h \in LiveHandles : Delete(h)

\* safetimer_start in the main loop or in a callback, up to the critical section:
\* the handle is checked and the tick is read.
LStart ==
  /\ MainCtx
  /\ calls = <<>>
  /\ \E h \in LiveHandles :
       /\ validate_handle(h)
       /\ calls' = <<[op |-> "start", pc |-> "L397", i |-> DECODE_INDEX(h),
                      context |-> "main", start_tick |-> ticks]>>
  /\ UNCHANGED <<cfg, sem, coro, ticks, poolVars, s_processing, g_executing_handle, proc, ap, obsVars,
                 s_critical_nesting>>

\* The critical section of that safetimer_start: the expiry is set from the tick
\* read before and the timer is marked active.
StartWrite ==
  /\ calls # <<>>
  /\ calls[1].op = "start" /\ calls[1].pc = "L397"
  /\ LET slot_index == calls[1].i
     IN /\ slots' = [slots EXCEPT ![slot_index] =
                       [update_expire_time(@, calls[1].start_tick) EXCEPT !.active = TRUE]]
        /\ fired' = [fired EXCEPT ![slot_index] = 0]
        /\ elapsed' = [elapsed EXCEPT ![slot_index] = 0]
        /\ follow' = Forget(follow, slot_index)
  /\ calls' = <<>>
  /\ last' = Returned("start", TIMER_OK, "ok")
  /\ UNCHANGED <<cfg, sem, coro, ticks, used_bitmap, next_generation, s_processing, g_executing_handle,
                 proc, ap, isr_stop, watch, s_critical_nesting>>

NextLive ==
  \/ LCreate
  \/ LDelete
  \/ LStart
  \/ StartWrite
  \/ IStart
  \/ IStop
  \/ calls = <<>> /\ ITick
  \/ calls = <<>> /\ ProcessCall
  \/ calls = <<>> /\ ProcessCheck
  \/ calls = <<>> /\ ProcessDiv
  \/ calls = <<>> /\ ProcessRecheck
  \/ calls = <<>> /\ ProcessInvoke
  \/ calls = <<>> /\ CallbackReturn

SpecLive == InitOrder /\ [][NextLive]_vars

(* ---------- the critical sections of the public calls ---------- *)

\* bsp_enter_critical and bsp_exit_critical of the test BSP count the nesting depth.
\* A bsp_enter_critical that leaves interrupts enabled.
bsp_enter_critical_unmasked(nesting) == nesting

bsp_enter_critical(nesting) == nesting + 1

bsp_exit_critical(nesting) == nesting - 1

\* A trigger_timer whose coalescing path returns without taking the lock again.
TriggerPaths_no_reenter ==
  { <<"T1066", "go", "L755">>,
    <<"T1066", "exit", "T1097">>,
    <<"T1097", "go", "L755">> }

\* The paths through trigger_timer, called at line 750 with the lock held, as edges
\* <<from, event, to>> between source lines: ONE_SHOT and catch-up REPEAT return
\* at once; coalescing REPEAT releases the lock for the division and takes it
\* again, on the divide-by-zero guard as well.
TriggerPaths ==
  { <<"T1066", "go", "L755">>,
    <<"T1066", "exit", "T1097">>,
    <<"T1097", "enter", "L755">> }

\* The paths through safetimer_process: the recursion guard and the one read of
\* the tick source, then for each slot the first critical section, the re-check
\* in a second one and the callback.
ProcessPaths ==
  { <<"entry", "nested", "return">>,
    <<"entry", "sweep", "L704">>,
    <<"L704", "tick", "L706">>,
    <<"L706", "iterate", "L732">>,
    <<"L706", "finish", "return">>,
    <<"L732", "enter", "L735">>,
    <<"L735", "exit", "L737">>,
    <<"L737", "continue", "L706">>,
    <<"L735", "go", "L744">>,
    <<"L744", "go", "L755">>,
    <<"L744", "go", "T1066">>,
    <<"L755", "exit", "L758">>,
    <<"L758", "go", "L737">>,
    <<"L758", "enter", "L766">>,
    <<"L766", "exit", "L786">>,
    <<"L786", "go", "L737">>,
    <<"L786", "callback", "L794">>,
    <<"L794", "go", "L737">> } \cup TriggerPaths

\* The paths through each public call. Most calls check their arguments, then do
\* their work in one critical section; start, set_period and advance_period read
\* the tick source (event "tick") between the two, and get_remaining reads it
\* at line 864, after it has entered its critical section at 855.
Paths(op) ==
  LET OneSection(work) ==
        { <<"entry", "go", "return">>,
          <<"entry", "enter", work>>,
          <<work, "exit", "return">> }
      TickThenSection(lock, work) ==
        { <<"entry", "go", "return">>,
          <<"entry", "tick", lock>>,
          <<lock, "enter", work>>,
          <<work, "exit", "return">> }
  IN CASE op = "process" -> ProcessPaths
       [] op = "create" -> OneSection("L321")
       [] op = "start" -> TickThenSection("L397", "L398")
       [] op = "stop" -> OneSection("L433")
       [] op = "delete" -> OneSection("L462")
       [] op = "set_period" -> TickThenSection("L523", "L524")
       [] op = "advance_period" ->
            TickThenSection("L593", "L605") \cup
            { <<"L605", "exit", "L624">>,
              <<"L624", "enter", "L628">>,
              <<"L628", "exit", "return">>,
              <<"L624", "enter", "L645">>,
              <<"L645", "exit", "return">> }
       [] op = "get_current_handle" -> { <<"entry", "go", "return">> }
       [] op = "get_status" -> OneSection("L828")
       [] op = "get_remaining" ->
            OneSection("L857") \cup
            { <<"L857", "tick", "L866">>,
              <<"L866", "exit", "return">> }
       [] op = "get_pool_usage" -> { <<"entry", "enter", "L892">>, <<"L892", "exit", "return">> }

\* The main loop, or the callback being executed by safetimer_process, makes a
\* public call.
Call(op) ==
  LET n == Len(calls)
  IN /\ \/ calls = <<>> /\ calls' = <<[op |-> op, pc |-> "entry", i |-> 0, context |-> "main"]>>
        \/ /\ calls # <<>>
           /\ calls[n].op = "process" /\ calls[n].pc = "L794"
           /\ calls' = Append(calls, [op |-> op, pc |-> "entry", i |-> 0, context |-> "callback"])
     /\ UNCHANGED <<cfg, sem, coro, ticks, poolVars, s_processing, g_executing_handle, proc, ap, obsVars,
                    s_critical_nesting>>

\* An interrupt handler makes a call: only while interrupts are not masked, and
\* not from within another interrupt handler.
Interrupt(op) ==
  /\ calls # <<>>
  /\ s_critical_nesting = 0
  /\ \A k \in 1 .. Len(calls) : calls[k].context # "interrupt"
  /\ calls' = Append(calls, [op |-> op, pc |-> "entry", i |-> 0, context |-> "interrupt"])
  /\ UNCHANGED <<cfg, sem, coro, ticks, poolVars, s_processing, g_executing_handle, proc, ap, obsVars,
                 s_critical_nesting>>

\* The call on top of the stack takes one edge of its path. The recursion guard
\* is taken when a sweep is on the stack, and the loop runs over the slots.
Step ==
  /\ calls # <<>>
  /\ LET n == Len(calls)
         frame == calls[n]
         Sweeping == \E k \in 1 .. n : calls[k].op = "process" /\ calls[k].pc # "entry"
         Allowed(e) ==
           CASE e[2] = "nested" -> Sweeping
             [] e[2] = "sweep" -> ~Sweeping
             [] e[2] = "iterate" -> frame.i < MAX_TIMERS
             [] e[2] = "finish" -> frame.i >= MAX_TIMERS
             [] OTHER -> TRUE
     IN \E e \in Paths(frame.op) :
          /\ e[1] = frame.pc
          /\ Allowed(e)
          /\ s_critical_nesting' =
               CASE e[2] = "enter" -> bsp_enter_critical(s_critical_nesting)
                 [] e[2] = "exit" -> bsp_exit_critical(s_critical_nesting)
                 [] OTHER -> s_critical_nesting
          /\ calls' =
               IF e[3] = "return"
               THEN SubSeq(calls, 1, n - 1)
               ELSE [calls EXCEPT ![n] =
                       [frame EXCEPT !.pc = e[3],
                                     !.i = IF e[2] = "continue" THEN frame.i + 1 ELSE frame.i]]
  /\ UNCHANGED <<cfg, sem, coro, ticks, poolVars, s_processing, g_executing_handle, proc, ap, obsVars>>

\* The public calls from the main loop and from callbacks, and safetimer_start and
\* safetimer_stop from interrupt handlers.
NextCritical ==
  \/ \E op \in { "process", "create", "start", "stop", "delete", "set_period",
                 "advance_period", "get_current_handle", "get_status", "get_remaining",
                 "get_pool_usage" } : Call(op)
  \/ \E op \in { "start", "stop" } : Interrupt(op)
  \/ Step

SpecCritical == InitOrder /\ [][NextCritical]_vars

(* ---------- the semaphore wait of a coroutine ---------- *)

\* The conversion of an int to safetimer_sem_t (int8_t): the value modulo 2^8,
\* read as signed.
Int8(x) == ((x + 128) % 256) - 128

\* One step of SAFETIMER_CORO_WAIT_SEM(sem, poll_ms, coro.timeout_count) from the
\* source line coro.pc: the test of the semaphore and the write to it are steps
\* of their own inside the critical sections entered at lines 159 and 169; the
\* call of safetimer_set_period goes to the pool with the context's handle.
SAFETIMER_CORO_WAIT_SEM(poll_ms) ==
  LET enter == bsp_enter_critical(s_critical_nesting)
      exit == bsp_exit_critical(s_critical_nesting)
      at(pc) == [coro EXCEPT !.pc = pc]
      r == CASE coro.pc = "L159" ->
                  [sem |-> sem, nesting |-> enter, coro |-> at("L160")]
             [] coro.pc = "L160" ->
                  IF sem = 0
                  THEN [sem |-> sem, nesting |-> exit, coro |-> at("after")]
                  ELSE [sem |-> sem, nesting |-> s_critical_nesting,
                        coro |-> [coro EXCEPT !.pc = "L164", !.entered = TRUE]]
             [] coro.pc = "L164" ->
                  [sem |-> Int8(coro.timeout_count + 1), nesting |-> exit,
                   coro |-> at("L166")]
             [] coro.pc = "L166" ->
                  [sem |-> sem, nesting |-> s_critical_nesting,
                   coro |-> [coro EXCEPT !.pc = "L169", !.lc = 168]]
             [] coro.pc = "L169" ->
                  [sem |-> sem, nesting |-> enter, coro |-> at("L170")]
             [] coro.pc = "L170" ->
                  IF sem = 0
                  THEN [sem |-> sem, nesting |-> exit, coro |-> at("after")]
                  ELSE [sem |-> sem, nesting |-> s_critical_nesting,
                        coro |-> at(IF sem > 1 THEN "L175" ELSE "L179")]
             [] coro.pc = "L175" ->
                  [sem |-> Int8(sem - 1), nesting |-> exit,
                   coro |-> [coro EXCEPT !.pc = "out", !.yields = @ + 1]]
             [] coro.pc = "L179" ->
                  [sem |-> IF sem # 0 THEN SAFETIMER_SEM_TIMEOUT ELSE sem,
                   nesting |-> exit, coro |-> at("after")]
      slot_index == DECODE_INDEX(coro.handle)
      set == /\ coro.pc = "L166"
             /\ PeriodAccepted(poll_ms)
             /\ validate_handle(coro.handle)
  IN /\ coro.pc \in {"L159", "L160", "L164", "L166", "L169", "L170", "L175", "L179"}
     /\ sem' = r.sem
     /\ s_critical_nesting' = r.nesting
     /\ coro' = r.coro
     /\ slots' = IF set
                 THEN [slots EXCEPT ![slot_index] = SetPeriodSlot(@, ticks, poll_ms)]
                 ELSE slots
     /\ last' = IF coro.pc # "L166" THEN last
                ELSE IF set
                THEN Returned("set_period", TIMER_OK,
                              IF slots[slot_index].active THEN "active" ELSE "inactive")
                ELSE Returned("set_period", TIMER_ERR_INVALID, "rejected")
     /\ elapsed' = IF set
                   THEN [elapsed EXCEPT ![slot_index] =
                           IF slots[slot_index].active THEN 0 ELSE -1]
                   ELSE elapsed
     /\ follow' = IF set THEN Forget(follow, slot_index) ELSE follow
     /\ UNCHANGED <<cfg, calls, ticks, used_bitmap, next_generation, s_processing,
                    g_executing_handle, proc, ap, fired, isr_stop, watch>>

\* Specification of the semaphore wait: the application leaves a value in the
\* semaphore, the coroutine function is called again and again (each call is
\* one poll) and runs SAFETIMER_CORO_WAIT_SEM with some timeout count, and an
\* interrupt handler executes SAFETIMER_SEM_SIGNAL wherever interrupts are not
\* masked.
NextSem ==
  \/ /\ coro = CoroIdle /\ sem = 0
     /\ sem' \in {1, SAFETIMER_SEM_TIMEOUT}
     /\ UNCHANGED <<cfg, coro, ticks, poolVars, s_processing, g_executing_handle, proc, ap,
                    obsVars, s_critical_nesting, calls>>
  \/ /\ coro.pc = "out"
     /\ \E n \in {0, 1, 2, SEM_MAX_TIMEOUT_COUNT, SEM_MAX_TIMEOUT_COUNT + 1} :
          coro' = IF coro.lc = 0
                  THEN [coro EXCEPT !.pc = "L159", !.timeout_count = n,
                                    !.handle = IF @ \in {SAFETIMER_INVALID_HANDLE, 0}
                                               THEN safetimer_get_current_handle
                                               ELSE @]
                  ELSE [coro EXCEPT !.pc = "L169"]
     /\ UNCHANGED <<cfg, sem, ticks, poolVars, s_processing, g_executing_handle, proc, ap,
                    obsVars, s_critical_nesting, calls>>
  \/ SAFETIMER_CORO_WAIT_SEM(1)
  \/ /\ s_critical_nesting = 0
     /\ sem' = 0
     /\ coro' = [coro EXCEPT !.signal = IF @ # "none" THEN @
                                        ELSE IF coro.pc = "after" THEN "late"
                                        ELSE "early"]
     /\ UNCHANGED <<cfg, ticks, poolVars, s_processing, g_executing_handle, proc, ap,
                    obsVars, s_critical_nesting, calls>>

SpecSem == InitOrder /\ [][NextSem]_vars

(* ---------- claims about handles ---------- *)

\* Every handle-taking operation called with handle h is rejected: it returns
\* TIMER_ERR_INVALID and leaves the pool as it was.
RejectsCalls(h) ==
  /\ Start(h) => (last'.ret = TIMER_ERR_INVALID /\ UNCHANGED poolVars)
  /\ Stop(h) => (last'.ret = TIMER_ERR_INVALID /\ UNCHANGED poolVars)
  /\ Delete(h) => (last'.ret = TIMER_ERR_INVALID /\ UNCHANGED poolVars)
  /\ SetPeriod(h, 1) => (last'.ret = TIMER_ERR_INVALID /\ UNCHANGED poolVars)
  /\ AdvancePeriod(h, 1) => (last'.ret = TIMER_ERR_INVALID /\ UNCHANGED poolVars)

C2_SentinelNeverValid ==
  \A i \in used_bitmap :
    ~(DECODE_INDEX(SAFETIMER_INVALID_HANDLE) = i
      /\ DECODE_GEN(SAFETIMER_INVALID_HANDLE) = slots[i].generation)

(* ---------- claims about interrupts ---------- *)

\* C3 as stated: when the callback of a slot is entered, no stop has hit that slot
\* since this iteration detected its expiry, whatever the timer's mode.
C3_StopAlwaysPreventsCallback == proc.pc = "cb" => isr_stop = "none"

\* C3 amended: a stop of a REPEAT timer that runs after the expiry is detected and
\* before the re-check, with no start after it, keeps the callback from being
\* invoked in that iteration.
C3_EarlyStopOfRepeatPreventsCallback ==
  proc.pc \in {"invoke", "cb"} =>
    ~(isr_stop = "early" /\ proc.captured_mode = TIMER_MODE_REPEAT)

\* C3 witness: a REPEAT timer was stopped between detection and re-check, the
\* re-check has skipped its callback and the sweep has moved on.
C3_Witness ==
  /\ isr_stop = "prevented"
  /\ proc.pc # "cb"
  /\ \E i \in used_bitmap :
       /\ slots[i].mode = TIMER_MODE_REPEAT
       /\ ~slots[i].active
       /\ fired[i] = 0

(* ---------- claims about timing ---------- *)

\* C4 as stated: between calls, while fewer ticks than its period have passed
\* since a timer was started, the expiry test of process does not hold for it and
\* get_remaining returns the period less the ticks passed, for every period
\* create accepts.
C4_NotExpiredBeforePeriod ==
  \A i \in used_bitmap :
    (ap.pc = "idle" /\ slots[i].active /\ elapsed[i] >= 0 /\ elapsed[i] < slots[i].period) =>
      /\ ~Expired(ticks, slots[i])
      /\ safetimer_get_remaining(ENCODE_HANDLE(slots[i].generation, i)).remaining_ms
           = slots[i].period - elapsed[i]

C6_NoRefireAtSameTick ==
  (proc.pc = "cb" /\ proc.captured_mode = TIMER_MODE_REPEAT /\ ~cfg.catchup) =>
    follow.prev[proc.i] # proc.current_tick

\* The smallest k >= 1 for which k periods are more than the lag.
SmallestMultiple(lag, period) ==
  CHOOSE k \in 1 .. (TickMod + 1) :
    /\ k * period > lag
    /\ \A j \in 1 .. (k - 1) : j * period <= lag

\* C7 as stated: the coalescing step writes old_expire + k * period for the
\* smallest k >= 1 that passes the snapshot tick, and the expiry test at the
\* snapshot tick does not hold for the new expire_time.
C7_CoalescedExpiryInFuture ==
  [][ProcessDiv =>
       LET i == proc.i
           lag == safetimer_tick_diff(proc.current_tick, proc.old_expire)
           k == SmallestMultiple(lag, proc.period)
       IN /\ slots'[i].expire_time = TickCast(proc.old_expire + k * proc.period)
          /\ ~Expired(proc.current_tick, slots'[i])]_vars

\* The expiry that keeps the phase: d ticks after the last scheduled instant, the
\* first of the instants p, 2p, 3p, ... after it that lies after the current tick.
PhaseExpiry(d, p) == TickCast(ticks - d + SmallestMultiple(d, p) * p)

\* The timer's last scheduled instant is known and less than half the tick range ago.
Anchored(i) == slots[i].active /\ elapsed[i] >= 0 /\ elapsed[i] < TickHalf

\* C8 as stated: advance_period(h, p) on an active timer whose last scheduled
\* instant E - q was d ticks ago sets the expiry to (E - q) + p when p > d, and to
\* the first (E - q) + p + k * p after the current tick otherwise.
C8_AdvanceKeepsPhase ==
  [][/\ \A h \in LiveHandles, p \in PeriodInputs :
          (/\ AdvancePeriod(h, p)
           /\ PeriodAccepted(p)
           /\ ap'.pc = "idle"
           /\ Anchored(DECODE_INDEX(h))) =>
            slots'[DECODE_INDEX(h)].expire_time = PhaseExpiry(elapsed[DECODE_INDEX(h)], p)
     /\ (AdvancePeriodFinish /\ Anchored(ap.slot_index)) =>
          slots'[ap.slot_index].expire_time
            = PhaseExpiry(elapsed[ap.slot_index], ap.new_period_ms)]_vars

\* C9: in the periodic cycle every sweep at a boundary invokes the callback, and
\* after advance_period the expiry is a whole number of periods from the boundary
\* (for periods up to half the tick range: exactly one period after it).
C9_CycleHasNoDrift ==
  \A i \in used_bitmap :
    /\ (last = Returned("process", TIMER_OK, "swept") /\ proc.pc = "idle" /\ ap.pc = "idle") =>
         follow.cur[i] = ticks
    /\ (last.op = "advance_period" /\ ap.pc = "idle") =>
         /\ \E m \in 0 .. TickMod : slots[i].expire_time = TickCast(ticks + m * slots[i].period)
         /\ slots[i].period <= TickHalf =>
              slots[i].expire_time = TickCast(ticks + slots[i].period)

\* C9 witness: the cycle has run past the wrap of the tick counter: a boundary
\* sweep has fired and advance_period has returned at a tick below the period.
C9_Witness ==
  /\ last.op = "advance_period"
  /\ ap.pc = "idle"
  /\ \E i \in used_bitmap :
       /\ fired[i] >= 2
       /\ slots[i].period > 1
       /\ ticks < slots[i].period
       /\ slots[i].expire_time = TickCast(ticks + slots[i].period)

\* C10: set_period with a valid handle and period stores the period and keeps the
\* active flag; it sets the expiry to now + p for an active timer and leaves it
\* for an inactive one; a start then sets the expiry to now + the stored period.
C10_SetPeriodRearmsOnlyActive ==
  [][/\ \A h \in LiveHandles, p \in PeriodInputs :
          (SetPeriod(h, p) /\ PeriodAccepted(p)) =>
            LET i == DECODE_INDEX(h)
            IN /\ slots'[i].period = p
               /\ slots'[i].active = slots[i].active
               /\ slots[i].active => slots'[i].expire_time = TickCast(ticks + p)
               /\ ~slots[i].active => slots'[i].expire_time = slots[i].expire_time
     /\ \A h \in LiveHandles :
          Start(h) =>
            LET i == DECODE_INDEX(h)
            IN /\ slots'[i].active
               /\ slots'[i].period = slots[i].period
               /\ slots'[i].expire_time = TickCast(ticks + slots[i].period)]_vars

\* C10 witness: set_period has just returned for an inactive timer whose stored
\* expiry is not what a re-arm would have written.
C10_Witness ==
  /\ last = Returned("set_period", TIMER_OK, "inactive")
  /\ \E i \in used_bitmap :
       /\ ~slots[i].active
       /\ slots[i].expire_time # TickCast(ticks + slots[i].period)

\* C11 as stated: when a start or stop in interrupt context has changed the active
\* flag or expire_time of the timer while advance_period had released the critical
\* section, the rest of advance_period leaves expire_time as the interrupt wrote it.
C11_AdvanceKeepsInterruptValue ==
  [][(AdvancePeriodFinish /\ isr_stop = "advance") =>
       slots'[ap.slot_index].expire_time = slots[ap.slot_index].expire_time]_vars

(* ---------- claims about the recursion guard ---------- *)

C13_PoolNeverExceedsMaxTimers ==
  /\ [](used_bitmap \subseteq SlotIndices /\ Cardinality(used_bitmap) <= MAX_TIMERS)
  /\ [][(ACreate /\ Cardinality(used_bitmap) = MAX_TIMERS) =>
          (last'.ret = SAFETIMER_INVALID_HANDLE /\ used_bitmap' = used_bitmap)]_vars

\* C13 witness: every slot is allocated and a create has just been refused.
C13_Witness ==
  /\ used_bitmap = SlotIndices
  /\ last = Returned("create", SAFETIMER_INVALID_HANDLE, "rejected")

\* The largest period the interface admits: min(2^31 - 1, maximum of the tick type).
MaxPeriod == IF cfg.tick16 THEN TickMod - 1 ELSE TickHalf - 1

\* C14: a create called with period 0, with a period above the maximum for the tick
\* width, with a mode that is neither ONE_SHOT nor REPEAT, or with the pool full
\* returns SAFETIMER_INVALID_HANDLE (a create that returns a handle was called
\* with none of these); and every create that returns
\* SAFETIMER_INVALID_HANDLE leaves the bitmap, all slots and the generation counter
\* as they were.
C14_FailedCreateChangesNothing ==
  /\ [][(last'.op = "create" /\ last'.ret # SAFETIMER_INVALID_HANDLE) =>
          \A p \in CreatePeriodInputs, m \in CreateModeInputs, cb \in CallbackInputs :
            Create(p, m, cb, FALSE) =>
              /\ p # 0
              /\ p <= MaxPeriod
              /\ m \in {TIMER_MODE_ONE_SHOT, TIMER_MODE_REPEAT}
              /\ used_bitmap # SlotIndices]_vars
  /\ [][(ACreate /\ last'.ret = SAFETIMER_INVALID_HANDLE) => UNCHANGED poolVars]_vars

\* C14 witness: a create has been refused while a timer is allocated, a slot is
\* free and the generation counter has advanced, so the refusal was for its
\* arguments and there was state to damage.
C14_Witness ==
  /\ last = Returned("create", SAFETIMER_INVALID_HANDLE, "rejected")
  /\ used_bitmap # {}
  /\ used_bitmap # SlotIndices
  /\ next_generation > 1

\* C15: a create that succeeds takes the lowest-index free slot, stores the period,
\* mode and callback it was given, leaves the timer inactive and the other slots
\* alone, invokes no callback, and returns a handle that is not
\* SAFETIMER_INVALID_HANDLE, whose index field is the slot's index (below
\* MAX_TIMERS) and whose generation field is the generation stored in the slot.
C15_CreateAllocatesLowestFreeSlot ==
  [][(last'.op = "create" /\ last'.path = "ok") =>
       \A p \in CreatePeriodInputs, m \in CreateModeInputs, cb \in CallbackInputs :
         Create(p, m, cb, FALSE) =>
           LET h == last'.ret
               i == DECODE_INDEX(h)
           IN /\ h # SAFETIMER_INVALID_HANDLE
              /\ i < MAX_TIMERS
              /\ i \notin used_bitmap
              /\ \A j \in SlotIndices : j < i => j \in used_bitmap
              /\ used_bitmap' = used_bitmap \cup {i}
              /\ slots'[i].period = p
              /\ slots'[i].mode = m
              /\ slots'[i].callback = cb
              /\ ~slots'[i].active
              /\ DECODE_GEN(h) = slots'[i].generation
              /\ \A j \in SlotIndices \ {i} : slots'[j] = slots[j]
              /\ fired' = fired
              /\ UNCHANGED <<s_processing, g_executing_handle, proc>>]_vars

\* C15 witness: a create has just succeeded into slot 1 while slot 0 was taken, and
\* the slot it took had been used before with another generation.
C15_Witness ==
  /\ last.op = "create"
  /\ last.path = "ok"
  /\ DECODE_INDEX(last.ret) = 1
  /\ used_bitmap = {0, 1}
  /\ next_generation > 2

(* ---------- claims about slot reuse ---------- *)

RejectsQueries(h) ==
  /\ GetStatus(h) => (last'.ret = TIMER_ERR_INVALID /\ UNCHANGED poolVars)
  /\ GetRemaining(h) => (last'.ret = TIMER_ERR_INVALID /\ UNCHANGED poolVars)

\* C17: while the slot of a deleted handle h has not been reallocated, start, stop,
\* delete, set_period, advance_period, get_status and get_remaining called with h
\* return TIMER_ERR_INVALID, never TIMER_OK, and leave the pool unchanged; so a
\* second delete(h) fails.
C17_DeletedHandleIsRejected ==
  /\ [](\A h \in FreedHandles :
          /\ ~validate_handle(h)
          /\ safetimer_get_status(h).ret # TIMER_OK
          /\ safetimer_get_remaining(h).ret # TIMER_OK)
  /\ [][\A h \in FreedHandles : RejectsCalls(h) /\ RejectsQueries(h)]_vars

\* C17 witness: a timer was deleted, its slot is still free while the other slot is
\* allocated, and a further delete has just failed.
C17_Witness ==
  /\ FreedHandles # {}
  /\ used_bitmap # {}
  /\ last = Returned("delete", TIMER_ERR_INVALID, "rejected")

\* C18 as stated: an operation succeeds for an int v only if v is the handle that
\* create returned for a timer allocated now; called with any other value, also
\* one that differs from such a handle only above the index and generation
\* fields, it returns TIMER_ERR_INVALID and changes nothing.
C18_OnlyIssuedHandlesAccepted ==
  [][\A v \in WideHandleInputs \ LiveHandles : RejectsCalls(v) /\ RejectsQueries(v)]_vars

(* ---------- claims about tick arithmetic ---------- *)

\* C19: for all tick values a and b, tick_diff(a, b) >= 0 exactly when
\* (a - b) mod 2^w < 2^(w-1); and a running timer whose period has passed, by less
\* than half the tick range, passes the expiry test whether or not the counter
\* has wrapped since its expiry was computed.
C19_TickDiffSignAcrossWrap ==
  /\ \A a \in Ticks, b \in Ticks :
       (safetimer_tick_diff(a, b) >= 0) <=> ((a - b) % TickMod < TickHalf)
  /\ \A i \in used_bitmap :
       (/\ slots[i].active
        /\ elapsed[i] >= slots[i].period
        /\ elapsed[i] - slots[i].period < TickHalf)
         => Expired(ticks, slots[i])

\* C19 witness: a sweep has invoked the callback of a timer whose expiry is
\* numerically above the current tick: the counter wrapped between the start and
\* the sweep.
C19_Witness ==
  /\ 0 \in used_bitmap
  /\ fired[0] = 1
  /\ ~slots[0].active
  /\ ticks < slots[0].expire_time
  /\ last = Returned("process", TIMER_OK, "swept")

(* ---------- claims about start ---------- *)

\* C20 as stated: start on a valid handle sets expire_time to the current tick plus
\* the period and makes the timer active, whether it was active or not; and a
\* sweep finds a timer expired only when at least its period has passed since it
\* was last started, so a timer restarted more often than once per period
\* never fires.
C20_RestartRearmsFromNow ==
  /\ [][\A h \in LiveHandles :
          Start(h) =>
            /\ last'.ret = TIMER_OK
            /\ slots'[DECODE_INDEX(h)].active
            /\ slots'[DECODE_INDEX(h)].expire_time
                 = (ticks + slots[DECODE_INDEX(h)].period) % TickMod]_vars
  /\ [][(/\ ProcessCheck
          /\ slots[proc.i].active
          /\ elapsed[proc.i] >= 0
          /\ elapsed'[proc.i] < 0)
           => elapsed[proc.i] >= slots[proc.i].period]_vars

(* ---------- claims about stop ---------- *)

C22_StopUnallocatedIsNotFound ==
  [][\A h \in WideHandleInputs :
       (/\ Stop(h)
        /\ h >= 0
        /\ DECODE_INDEX(h) < MAX_TIMERS
        /\ DECODE_INDEX(h) \notin used_bitmap)
         => last'.ret = TIMER_ERR_NOT_FOUND]_vars

(* ---------- claims about queries ---------- *)

\* C23 as stated: get_remaining on a live handle returns TIMER_OK and stores 0 for
\* an inactive timer, 0 for an active timer that passes the expiry test of
\* process, and otherwise expire_time minus the current tick in the tick width;
\* the value is never above the timer's period.
C23_RemainingIsExactOrZero ==
  \A i \in used_bitmap :
    LET r == safetimer_get_remaining(ENCODE_HANDLE(slots[i].generation, i))
    IN /\ r.ret = TIMER_OK
       /\ ~slots[i].active => r.remaining_ms = 0
       /\ (slots[i].active /\ Expired(ticks, slots[i])) => r.remaining_ms = 0
       /\ (slots[i].active /\ ~Expired(ticks, slots[i])) =>
            r.remaining_ms = (slots[i].expire_time - ticks) % TickMod
       /\ r.remaining_ms \in 0 .. slots[i].period

(* ---------- claims about the sweep ---------- *)

\* C24: when process invokes the callback of slot i, the callbacks it has invoked
\* before in the same call are those of slots below i; when a callback returns
\* the loop goes on with slot i + 1 or ends; and no callback is executing while
\* a slot is examined.
C24_CallbacksInSlotOrder ==
  /\ [][ProcessInvoke => \A j \in SlotIndices : follow.cur[j] >= 0 => j < proc.i]_vars
  /\ [][(proc.pc = "cb" /\ proc' # proc) =>
          \/ proc'.pc = "idle"
          \/ proc'.pc = "check" /\ proc'.i = proc.i + 1]_vars
  /\ [](proc.pc \in {"check", "div", "recheck", "invoke"} =>
          g_executing_handle = SAFETIMER_INVALID_HANDLE)

\* C24 witness: in one call of process the callback of slot 0 has been invoked and
\* has returned, and the callback of slot 1 is executing.
C24_Witness ==
  /\ proc.pc = "cb"
  /\ proc.i = 1
  /\ follow.cur[0] = proc.current_tick
  /\ follow.cur[1] = proc.current_tick
  /\ fired[0] >= 1
  /\ fired[1] >= 1

(* ---------- claims about the critical sections ---------- *)

\* C25: every callback is invoked with the critical section released (nesting
\* depth 0), and every public call pairs enter and exit on every path: the depth
\* is never above 1, never below 0, and is 0 when a call returns.
C25_CriticalSectionsBalanced ==
  /\ [](s_critical_nesting \in {0, 1})
  /\ []((calls # <<>> /\ calls[Len(calls)].pc = "L794") => s_critical_nesting = 0)
  /\ [][Len(calls') < Len(calls) => s_critical_nesting' = 0]_vars

\* C25 witness: an interrupt handler's call holds the lock at depth 1 while it has
\* interrupted a call made by a callback of the second slot, after the sweep went
\* through the coalescing path for it.
C25_Witness ==
  /\ Len(calls) = 3
  /\ calls[1].pc = "L794" /\ calls[1].i = 1
  /\ calls[2].context = "callback" /\ calls[2].op = "advance_period" /\ calls[2].pc = "L624"
  /\ calls[3].context = "interrupt"
  /\ s_critical_nesting = 1

(* ---------- claims about the executing handle ---------- *)

\* C26: safetimer_get_current_handle returns the handle of timer T, the value
\* create returned for it, throughout T's callback, and SAFETIMER_INVALID_HANDLE
\* whenever no callback is executing, including after process has returned.
C26_CurrentHandleIsExecutingTimer ==
  /\ [][(last'.op = "create" /\ last'.path = "ok" /\ used_bitmap' # used_bitmap) =>
          \E i \in used_bitmap' \ used_bitmap :
            /\ last'.ret = ENCODE_HANDLE(slots'[i].generation, i)
            /\ last'.ret # SAFETIMER_INVALID_HANDLE]_vars
  /\ [][\A i \in used_bitmap : i \in used_bitmap' /\ slots'[i].generation = slots[i].generation]_vars
  /\ [](proc.pc = "cb" =>
          /\ proc.i \in used_bitmap
          /\ safetimer_get_current_handle = ENCODE_HANDLE(slots[proc.i].generation, proc.i))
  /\ [](proc.pc # "cb" => safetimer_get_current_handle = SAFETIMER_INVALID_HANDLE)

\* C26 witness: the callback of the second timer is executing, after the callback
\* of the first one has run in the same sweep, and the executing handle is the
\* second timer's.
C26_Witness ==
  /\ proc.pc = "cb" /\ proc.i = 1
  /\ follow.cur[0] = proc.current_tick
  /\ safetimer_get_current_handle = ENCODE_HANDLE(slots[1].generation, 1)
  /\ safetimer_get_current_handle # ENCODE_HANDLE(slots[0].generation, 0)

(* ---------- claims about changing the period ---------- *)

\* C27: set_period and advance_period return TIMER_ERR_INVALID and leave the
\* timer's period, expire_time and active flag unchanged when the new period is 0
\* or exceeds the maximum for the tick width, or when the handle is invalid (not
\* the handle of an allocated timer).
C27_BadPeriodOrHandleRejected ==
  [][\A h \in WideHandleInputs, p \in CreatePeriodInputs :
       (p \notin 1 .. MaxPeriod \/ h \notin LiveHandles) =>
         ((SetPeriod(h, p) \/ AdvancePeriod(h, p)) =>
            (last'.ret = TIMER_ERR_INVALID /\ UNCHANGED slots))]_vars

(* ---------- claims about handle values ---------- *)

\* C28: every handle returned by a successful create is an integer in the range
\* 0 .. MAX_TIMERS - 1.
C28_HandleInSlotRange ==
  (last.op = "create" /\ last.ret # SAFETIMER_INVALID_HANDLE) => last.ret \in 0 .. MAX_TIMERS - 1

(* ---------- claims about the slot life cycle ---------- *)

\* C29: in every reachable state, under any interleaving of main-loop operations,
\* callbacks and interrupt-context start and stop, a slot whose active flag is set
\* is allocated in the bitmap.
C29_ActiveImpliesAllocated ==
  \A i \in SlotIndices : slots[i].active => i \in used_bitmap

\* C29 witness: the timer is active and allocated after an interrupt handler has
\* started it between the handle check and the critical section of a start in a
\* callback, and the pool has seen a delete before.
C29_Witness ==
  /\ calls # <<>> /\ calls[1].op = "start"
  /\ proc.pc = "cb"
  /\ slots[0].active /\ 0 \in used_bitmap
  /\ last.op = "start"
  /\ next_generation >= 2

\* C30: process never invokes the callback of a timer that was deleted, or deleted
\* and replaced by a new timer in the same slot, between the expiry check and the
\* re-check before the invocation, for ONE_SHOT as for REPEAT: when the callback
\* is invoked the slot is still allocated and holds the generation found expired.
C30_NoCallbackForDeletedTimer ==
  [][ProcessInvoke =>
       /\ proc.i \in used_bitmap
       /\ slots[proc.i].generation = proc.captured_gen]_vars

(* ---------- claims about generations ---------- *)

\* C31: every allocated slot has a generation in 1 .. HANDLE_GEN_MAX (never 0), and
\* each successful create assigns the successor of the generation assigned before
\* it, from one pool-wide counter that wraps from HANDLE_GEN_MAX back to 1.
C31_GenerationsCycleFromOne ==
  /\ [](\A i \in used_bitmap : slots[i].generation \in 1 .. HANDLE_GEN_MAX)
  /\ [][used_bitmap' # used_bitmap /\ used_bitmap \subseteq used_bitmap' =>
          \A i \in used_bitmap' \ used_bitmap :
            /\ slots'[i].generation =
                 IF next_generation = HANDLE_GEN_MAX THEN 1 ELSE next_generation + 1
            /\ next_generation' = slots'[i].generation
            /\ last'.ret = ENCODE_HANDLE(slots'[i].generation, i)]_vars
  /\ [][used_bitmap' \subseteq used_bitmap => next_generation' = next_generation]_vars

\* C31 witness: the create that has just returned took the generation after
\* HANDLE_GEN_MAX, which another allocated slot still holds.
C31_Witness ==
  /\ last.op = "create" /\ last.path = "ok"
  /\ next_generation = 1
  /\ used_bitmap = SlotIndices
  /\ \E i \in SlotIndices, j \in SlotIndices :
       /\ slots[i].generation = HANDLE_GEN_MAX
       /\ slots[j].generation = 1
       /\ last.ret = ENCODE_HANDLE(1, j)

(* ---------- claims about catch-up mode ---------- *)

\* C32: with SAFETIMER_ENABLE_CATCHUP = 1, each process call that finds a REPEAT
\* timer expired advances its expire_time by exactly one period and invokes its
\* callback once: of the n scheduled instants that have passed, n - 1 are left
\* for the next calls (the lag shrinks by one period), the callback is not
\* invoked twice in one call, and a call that finds no instant passed does not
\* invoke it.
C32_CatchupFiresOncePerCall ==
  /\ [][(ProcessCheck /\ cfg.catchup /\ slots[proc.i].mode = TIMER_MODE_REPEAT) =>
          LET slot == slots[proc.i]
              lag == safetimer_tick_diff(proc.current_tick, slot.expire_time)
          IN IF slot.active /\ lag >= 0
             THEN /\ slots'[proc.i].expire_time = (slot.expire_time + slot.period) % TickMod
                  /\ slots'[proc.i].active
                  /\ safetimer_tick_diff(proc.current_tick, slots'[proc.i].expire_time)
                       = lag - slot.period
                  /\ proc'.pc = "recheck"
             ELSE /\ slots' = slots
                  /\ proc'.pc \in {"idle", "check"}]_vars
  /\ [][(ProcessInvoke /\ cfg.catchup) => follow.cur[proc.i] < 0]_vars

\* C32 witness: in catch-up mode the callback of a REPEAT timer is running in a
\* process call made at the same tick as the call before, in which it ran too,
\* and no further instant is left.
C32_Witness ==
  /\ cfg.catchup
  /\ proc.pc = "cb"
  /\ slots[proc.i].mode = TIMER_MODE_REPEAT
  /\ follow.prev[proc.i] = proc.current_tick
  /\ follow.cur[proc.i] = proc.current_tick
  /\ fired[proc.i] = 2
  /\ safetimer_tick_diff(proc.current_tick, slots[proc.i].expire_time) < 0

(* ---------- claims about delete ---------- *)

\* C33: delete(h) on a valid handle clears the slot's active flag and its bitmap
\* bit and nothing else: the stored generation is unchanged and the allocated
\* count drops by exactly one; no operation other than create and delete changes
\* the allocated count, and create raises it by exactly one (so the count is the
\* number of creates less the number of deletes, 0 once every timer is deleted).
C33_DeleteReleasesOnlyItsSlot ==
  /\ [][\A h \in LiveHandles :
          Delete(h) =>
            /\ last'.ret = TIMER_OK
            /\ used_bitmap' = used_bitmap \ {DECODE_INDEX(h)}
            /\ Cardinality(used_bitmap') = Cardinality(used_bitmap) - 1
            /\ slots' = [slots EXCEPT ![DECODE_INDEX(h)].active = FALSE]
            /\ slots'[DECODE_INDEX(h)].generation = DECODE_GEN(h)
            /\ next_generation' = next_generation]_vars
  /\ [][used_bitmap' # used_bitmap =>
          \/ /\ last'.op = "delete" /\ last'.ret = TIMER_OK
             /\ \E i \in used_bitmap : used_bitmap' = used_bitmap \ {i}
          \/ /\ last'.op = "create" /\ last'.ret # SAFETIMER_INVALID_HANDLE
             /\ \E i \in SlotIndices \ used_bitmap : used_bitmap' = used_bitmap \cup {i}]_vars

\* C33 witness: the last of the created timers has just been deleted: the pool is
\* empty again and both slots keep the generations of their last occupants.
C33_Witness ==
  /\ last.op = "delete" /\ last.ret = TIMER_OK
  /\ used_bitmap = {}
  /\ \A i \in SlotIndices : slots[i].generation # 0 /\ ~slots[i].active
  /\ slots[0].generation # slots[1].generation

(* ---------- claims about the tick snapshot ---------- *)

\* C34: process reads the tick source exactly once per call and compares every
\* slot against that one value: the snapshot is the tick at the call and stays the
\* same to the end of the sweep, and a slot is found expired exactly when it is
\* active and its expiry is reached at the snapshot, so a timer whose expiry is
\* reached only while an earlier slot's callback is running is not fired in that
\* call; it is found expired by the next call's snapshot.
C34_OneSnapshotPerCall ==
  /\ [][(proc.pc = "idle" /\ proc'.pc # "idle") => proc'.current_tick = ticks]_vars
  /\ [][(proc.pc # "idle" /\ proc'.pc # "idle") => proc'.current_tick = proc.current_tick]_vars
  /\ [][(proc.pc = "check" /\ proc' # proc) =>
          LET slot == slots[proc.i]
              found == slot.active /\ safetimer_tick_diff(proc.current_tick, slot.expire_time) >= 0
          IN IF found
             THEN proc'.pc \in {"div", "recheck"} /\ proc'.i = proc.i
             ELSE slots' = slots /\ fired' = fired /\ proc'.pc \in {"idle", "check"}]_vars

\* C34 witness: a sweep has just returned in which the first timer fired and the
\* second, whose expiry was reached by a tick during the first one's callback, did
\* not: it is still waiting, expired at the present tick.
C34_Witness ==
  /\ proc.pc = "idle"
  /\ last.op = "process"
  /\ fired[0] >= 1
  /\ fired[1] = 0
  /\ slots[1].active
  /\ elapsed[1] = slots[1].period
  /\ safetimer_tick_diff(ticks, slots[1].expire_time) >= 0

(* ---------- claims about reading the tick source ---------- *)

\* C35: no pool operation reads the tick source (bsp_get_ticks) while it holds the
\* critical section; every operation that needs the current tick reads it before
\* entering.
C35_TickReadOutsideCriticalSection ==
  [][(calls # <<>> /\ Len(calls') = Len(calls)) =>
       LET n == Len(calls)
       IN \A e \in Paths(calls[n].op) :
            (e[2] = "tick" /\ e[1] = calls[n].pc /\ e[3] = calls'[n].pc) =>
              s_critical_nesting = 0]_vars

(* ---------- claims about what each operation may change ---------- *)

\* C36: start, stop, delete, set_period and advance_period called with handle h
\* change no field of any slot other than h's, and process changes only the active
\* flag and expire_time of slots it found expired; the mode, callback and
\* generation of an allocated timer never change after creation.
C36_OnlyOwnSlotChanges ==
  /\ [][(last'.op \in {"start", "stop", "delete", "set_period", "advance_period"}
         /\ proc' = proc /\ ticks' = ticks) =>
          \A h \in LiveHandles :
            (Start(h) \/ Stop(h) \/ Delete(h) \/ SetPeriod(h, 2) \/ AdvancePeriod(h, 2)) =>
              \A j \in SlotIndices \ {DECODE_INDEX(h)} : slots'[j] = slots[j]]_vars
  /\ [][ap.pc = "div" =>
          \A j \in SlotIndices \ {ap.slot_index} : slots'[j] = slots[j]]_vars
  /\ [][(proc.pc # "idle" /\ proc' # proc) =>
          \A j \in SlotIndices :
            slots'[j] # slots[j] =>
              /\ j = proc.i
              /\ \/ proc.pc = "div"
                 \/ /\ proc.pc = "check"
                    /\ slots[j].active
                    /\ safetimer_tick_diff(proc.current_tick, slots[j].expire_time) >= 0
              /\ [slots'[j] EXCEPT !.active = slots[j].active,
                                   !.expire_time = slots[j].expire_time] = slots[j]]_vars
  /\ [][\A i \in used_bitmap \cap used_bitmap' :
          /\ slots'[i].mode = slots[i].mode
          /\ slots'[i].callback = slots[i].callback
          /\ slots'[i].generation = slots[i].generation]_vars

\* C36 witness: the callback of the ONE_SHOT timer in slot 0 is running, the sweep
\* having retired it, while the REPEAT timer in slot 1, re-perioded before, is as
\* it was.
C36_Witness ==
  /\ proc.pc = "cb" /\ proc.i = 0
  /\ used_bitmap = SlotIndices
  /\ slots[0].mode = TIMER_MODE_ONE_SHOT /\ ~slots[0].active /\ slots[0].period = 1
  /\ slots[1].mode = TIMER_MODE_REPEAT /\ slots[1].active /\ slots[1].period = 2
  /\ elapsed[1] >= 1

(* ---------- claims about the coroutine adapter's unbound handle ---------- *)

C38_RepeatFiresAtEachExpiry ==
  /\ slots[0].active ~> (proc.pc = "cb" /\ proc.i = 0)
  /\ [][proc.pc = "check" /\ elapsed[proc.i] >= 0 /\ elapsed'[proc.i] < 0 =>
          elapsed[proc.i] >= slots[proc.i].period]_vars
  /\ [][/\ proc.pc = "check" /\ proc' # proc
        /\ slots[proc.i].active
        /\ elapsed[proc.i] >= slots[proc.i].period
        => elapsed'[proc.i] < 0]_vars

(* ---------- claims about the batch helper ---------- *)

\* C39: safetimer_create_started_batch(count, ...) with valid parameters returns
\* min(count, number of free slots); that many leading entries of the handle
\* array are valid handles of newly allocated, active timers, every remaining
\* entry is SAFETIMER_INVALID_HANDLE, and the allocated count has grown by the
\* returned number.
C39_BatchFillsFreeSlots ==
  [][last'.op = "create_started_batch" /\ last'.path = "valid" =>
       LET count == Len(last'.handles)
           free == MAX_TIMERS - Cardinality(used_bitmap)
           n == last'.ret
       IN /\ n = IF count < free THEN count ELSE free
          /\ Cardinality(used_bitmap') = Cardinality(used_bitmap) + n
          /\ \A k \in 1 .. count :
               LET h == last'.handles[k]
                   slot_index == DECODE_INDEX(h)
               IN IF k <= n
                  THEN /\ h # SAFETIMER_INVALID_HANDLE
                       /\ slot_index \in used_bitmap' \ used_bitmap
                       /\ DECODE_GEN(h) = slots'[slot_index].generation
                       /\ slots'[slot_index].active
                       /\ \A j \in 1 .. n : j # k => last'.handles[j] # h
                  ELSE h = SAFETIMER_INVALID_HANDLE]_vars

\* C39 witness: a batch of MAX_TIMERS + 1 timers asked for with one slot free
\* has returned 1: one handle and then SAFETIMER_INVALID_HANDLE.
C39_Witness ==
  /\ last.op = "create_started_batch" /\ last.path = "valid"
  /\ Len(last.handles) = MAX_TIMERS + 1
  /\ last.ret = 1
  /\ last.handles[1] # SAFETIMER_INVALID_HANDLE
  /\ last.handles[2] = SAFETIMER_INVALID_HANDLE
  /\ used_bitmap = SlotIndices
  /\ \A i \in SlotIndices : slots[i].active

(* ---------- claims about the semaphore wait ---------- *)

\* The wait is over, it found the semaphore non-zero and no signal came: it has
\* yielded timeout_count times and left SAFETIMER_SEM_TIMEOUT in the semaphore.
TimedOutAfterAllPolls ==
  coro.pc = "after" /\ coro.entered /\ coro.signal = "none" =>
    sem = SAFETIMER_SEM_TIMEOUT /\ coro.yields = coro.timeout_count

====
